---- MODULE Spec2Model ----
(***************************************************************************)
(* Model of the travel-window recommendation core (src/core): candidate    *)
(* window generation, the weather / flight / hotel scorers, window         *)
(* ranking, the selection made by synthesize_recommendation and the        *)
(* clauses of its reasoning and rejection texts.                           *)
(*                                                                         *)
(* Dates are integers (day numbers).  Scores are exact fixed-point         *)
(* numbers: a score s of the program is held as the integer s * Unit; the  *)
(* overall score, a sum of hundredths of the three sub-scores, is held as  *)
(* s * Unit * 100.  The arithmetic is exact: the program's doubles differ  *)
(* from it by rounding only, which is modelled where an integer is         *)
(* compared with a rounded product (hotel_budget_max * 0.7).  Star rating, *)
(* guest rating and beach distance are held in tenths, flight durations in *)
(* whole hours.  An optional value (None or a value) is a sequence of      *)
(* length 0 or 1.                                                          *)
(***************************************************************************)
EXTENDS Integers, Sequences, FiniteSets, TLC

\* weather, flights, hotels, profile: the arguments of synthesize_recommendation
\*   (forecast_days and the two option lists), or of a scorer called directly
\* pc: the position in synthesize_recommendation, or in the scorer call
\* ideal_periods, candidates: the locals of generate_candidate_windows and its result
\* windows, ranked_windows: the locals of synthesize_recommendation
\* result: what synthesize_recommendation raised or returned
\* probe: what a scorer called directly returned
\* storm_periods: the forecast's storm_periods list, (start, end) date pairs
\* previous: None, or what the caller keeps of the call it made before this one
\* calls_left: how many more times the caller will call with the same inputs
\* formatted: None, or the text format_recommendation made of the returned result
VARIABLES weather, storm_periods, flights, hotels, profile, pc, ideal_periods, candidates,
          windows, ranked_windows, result, probe, previous, calls_left, formatted

vars == <<weather, storm_periods, flights, hotels, profile, pc, ideal_periods, candidates,
          windows, ranked_windows, result, probe, previous, calls_left, formatted>>

(***************************************************************************)
(* Bounds of the model.                                                    *)
(***************************************************************************)
\* longest forecast of the run-scanning sweep
MaxDays == 9
\* largest flexibility_days
MaxFlex == 2
\* most flight options in a search result
MaxFlights == 2
\* most hotel options in a search result
MaxHotels == 2
\* days of the day-kind sweep's forecasts that take every kind
KindDays == 4
\* date of the first forecast day
FirstDate == 11
\* calls a repeating caller makes with the same inputs
MaxCalls == 2

(***************************************************************************)
(* Arithmetic helpers.                                                     *)
(***************************************************************************)
Max(a, b) == IF a >= b THEN a ELSE b

Min(a, b) == IF a <= b THEN a ELSE b

Abs(a) == IF a >= 0 THEN a ELSE 0 - a

RECURSIVE GCD(_, _)
GCD(a, b) == IF b = 0 THEN a ELSE GCD(b, a % b)

LCM(a, b) == (a * b) \div GCD(a, b)

RECURSIVE LCMUpTo(_)
LCMUpTo(n) == IF n <= 1 THEN 1 ELSE LCM(n, LCMUpTo(n - 1))

\* One score point is Unit model units: a multiple of 200 (the hotel score is a
\* multiple of 1/200) and of 20 * n for every window length n (a day score is a
\* multiple of 1/20, and the weather score divides a sum of them by n).
Unit == LCM(200, 20 * LCMUpTo(Max(MaxDays, KindDays)))

None == <<>>

Some(x) == <<x>>

RECURSIVE SumSeq(_)
SumSeq(s) == IF s = <<>> THEN 0 ELSE Head(s) + SumSeq(Tail(s))

RECURSIVE SeqsUpTo(_, _)
SeqsUpTo(S, n) == IF n = 0 THEN {<<>>} ELSE SeqsUpTo(S, n - 1) \cup [1..n -> S]

(***************************************************************************)
(* core/synthesis.py: get_trip_duration_days                               *)
(***************************************************************************)
get_trip_duration_days(trip_length) ==
    CASE trip_length = "SHORT" -> 4
      [] trip_length = "MEDIUM" -> 7
      [] trip_length = "LONG" -> 12
      [] trip_length = "EXTENDED" -> 17
      [] OTHER -> 7

(***************************************************************************)
(* core/models.py: WeatherForecast.get_ideal_periods                       *)
(***************************************************************************)
\* the mutant of DayMeetsCriteria: the storm flag is not tested
DayMeetsCriteriaNoStorm(day, p) ==
    LET temp_ok == p.preferred_temp_min <= day.temp_high /\ day.temp_high <= p.preferred_temp_max
        rain_ok == IF p.rain_tolerance = "low" THEN day.precipitation_chance < 20
                   ELSE IF p.rain_tolerance = "medium" THEN day.precipitation_chance < 40
                   ELSE TRUE
    IN  temp_ok /\ rain_ok

\* the mutant of DayMeetsCriteria: a chance of rain equal to the limit is tolerated
DayMeetsCriteriaRainInclusive(day, p) ==
    LET temp_ok == p.preferred_temp_min <= day.temp_high /\ day.temp_high <= p.preferred_temp_max
        rain_ok == IF p.rain_tolerance = "low" THEN day.precipitation_chance <= 20
                   ELSE IF p.rain_tolerance = "medium" THEN day.precipitation_chance <= 40
                   ELSE TRUE
        storm_ok == ~day.storm_risk
    IN  temp_ok /\ rain_ok /\ storm_ok

\* the per-day test of the scan (temp_ok and rain_ok and storm_ok)
DayMeetsCriteria(day, p) ==
    LET temp_ok == p.preferred_temp_min <= day.temp_high /\ day.temp_high <= p.preferred_temp_max
        rain_ok == IF p.rain_tolerance = "low" THEN day.precipitation_chance < 20
                   ELSE IF p.rain_tolerance = "medium" THEN day.precipitation_chance < 40
                   ELSE TRUE
        storm_ok == ~day.storm_risk
    IN  temp_ok /\ rain_ok /\ storm_ok

\* list.index: position of the first element equal to x
IndexOf(s, x) == CHOOSE i \in 1..Len(s) : s[i] = x /\ \A j \in 1..(i - 1) : s[j] # x

\* the loop body, from forecast position i on; current_start is None or Some(date)
RECURSIVE IdealScan(_, _, _, _, _, _, _)
IdealScan(days, p, min_days, i, current_start, consecutive_days, periods) ==
    IF i > Len(days)
    THEN \* "Check final period"
         IF current_start # None /\ consecutive_days >= min_days
         THEN Append(periods, <<current_start[1], days[Len(days)].date>>)
         ELSE periods
    ELSE LET day == days[i] IN
         IF DayMeetsCriteria(day, p)
         THEN IdealScan(days, p, min_days, i + 1,
                        IF current_start = None THEN Some(day.date) ELSE current_start,
                        consecutive_days + 1, periods)
         ELSE IdealScan(days, p, min_days, i + 1, None, 0,
                        IF current_start # None /\ consecutive_days >= min_days
                        THEN Append(periods,
                                    <<current_start[1], days[IndexOf(days, day) - 1].date>>)
                        ELSE periods)

get_ideal_periods(days, p, min_days) == IdealScan(days, p, min_days, 1, None, 0, <<>>)

(***************************************************************************)
(* core/synthesis.py: generate_candidate_windows                           *)
(***************************************************************************)
\* range(start, stop, step) as the sequence of its values (step > 0)
RECURSIVE Range(_, _, _)
Range(start, stop, step) ==
    IF start >= stop THEN <<>> ELSE <<start>> \o Range(start + step, stop, step)

\* stop value of the fallback loop's range over the 0-based start index
FallbackStop(days, trip_days) == Len(days) - trip_days

\* "Generate windows across the forecast": every 3 days; i is a 0-based index
FallbackCandidates(days, trip_days) ==
    LET starts == Range(0, FallbackStop(days, trip_days), 3)
    IN  [k \in 1..Len(starts) |->
            <<days[starts[k] + 1].date, days[starts[k] + trip_days].date>>]

\* "Earlier departure" variant of one offset: a sequence of 0 or 1 candidates
EarlierVariant(days, trip_days, start, offset) ==
    LET new_start == start - offset
    IN  IF new_start >= days[1].date
        THEN <<<<new_start, new_start + trip_days>>>>
        ELSE <<>>

\* the mutant of LaterVariant: the upper bound is not checked
LaterVariantUnchecked(days, trip_days, start, offset) ==
    <<<<start + offset, start + offset + trip_days>>>>

\* "Later departure" variant of one offset: a sequence of 0 or 1 candidates
LaterVariant(days, trip_days, start, offset) ==
    LET new_start == start + offset
        new_end == new_start + trip_days
    IN  IF new_end <= days[Len(days)].date
        THEN <<<<new_start, new_end>>>>
        ELSE <<>>

\* the variants of one ideal period for offsets offset..flexibility_days
RECURSIVE Variations(_, _, _, _, _)
Variations(days, trip_days, start, offset, flexibility_days) ==
    IF offset > flexibility_days THEN <<>>
    ELSE EarlierVariant(days, trip_days, start, offset)
         \o LaterVariant(days, trip_days, start, offset)
         \o Variations(days, trip_days, start, offset + 1, flexibility_days)

\* "Expand ideal periods with flexibility buffer", from period k on
RECURSIVE Expand(_, _, _, _, _)
Expand(days, trip_days, periods, k, flexibility_days) ==
    IF k > Len(periods) THEN <<>>
    ELSE <<periods[k]>>
         \o Variations(days, trip_days, periods[k][1], 1, flexibility_days)
         \o Expand(days, trip_days, periods, k + 1, flexibility_days)

generate_candidate_windows(days, p) ==
    LET trip_days == get_trip_duration_days(p.trip_length)
        periods == get_ideal_periods(days, p, trip_days)
    IN  IF periods = <<>>
        THEN FallbackCandidates(days, trip_days)
        ELSE Expand(days, trip_days, periods, 1, p.flexibility_days)

(***************************************************************************)
(* core/scoring.py: score_weather_compatibility                            *)
(***************************************************************************)
\* the mutant of TempScore: the deduction is not floored at 0
TempScoreUnfloored(day, p) ==
    IF p.preferred_temp_min <= day.temp_high /\ day.temp_high <= p.preferred_temp_max
    THEN 100
    ELSE LET deviation == IF day.temp_high < p.preferred_temp_min
                          THEN p.preferred_temp_min - day.temp_high
                          ELSE day.temp_high - p.preferred_temp_max
         IN  100 - (deviation * 5)

\* temp_score: 100, less 5 points per degree outside the preferred range, at least 0
TempScore(day, p) ==
    IF p.preferred_temp_min <= day.temp_high /\ day.temp_high <= p.preferred_temp_max
    THEN 100
    ELSE LET deviation == IF day.temp_high < p.preferred_temp_min
                          THEN p.preferred_temp_min - day.temp_high
                          ELSE day.temp_high - p.preferred_temp_max
         IN  Max(0, 100 - (deviation * 5))

\* the mutant of RainTenths: low tolerance takes the thresholds of medium
RainTenthsLowAsMedium(day, p) ==
    IF p.rain_tolerance \in {"low", "medium"}
    THEN IF day.precipitation_chance >= 60 THEN 5
         ELSE IF day.precipitation_chance >= 40 THEN 8 ELSE 10
    ELSE 10

\* the precipitation multiplier, in tenths
RainTenths(day, p) ==
    IF p.rain_tolerance = "low"
    THEN IF day.precipitation_chance >= 40 THEN 3
         ELSE IF day.precipitation_chance >= 20 THEN 6 ELSE 10
    ELSE IF p.rain_tolerance = "medium"
    THEN IF day.precipitation_chance >= 60 THEN 5
         ELSE IF day.precipitation_chance >= 40 THEN 8 ELSE 10
    ELSE 10

\* the mutant of DayScore: no storm penalty
DayScoreNoStorm(day, p) == (Min(100, TempScore(day, p)) * Unit * RainTenths(day, p)) \div 10

\* day_score of one loop iteration, in model units
DayScore(day, p) ==
    LET after_temp == Min(100, TempScore(day, p)) * Unit
        after_rain == (after_temp * RainTenths(day, p)) \div 10
    IN  IF day.storm_risk THEN after_rain \div 10 ELSE after_rain

\* returns [score, summary]; summary holds the numbers and the note of the text
score_weather_compatibility(weather_days, p) ==
    IF weather_days = <<>>
    THEN [score |-> 0, summary |-> [text |-> "No weather data available"]]
    ELSE LET n == Len(weather_days)
             idx == 1..n
             total_score == SumSeq([i \in idx |-> DayScore(weather_days[i], p)])
             perfect_days == Cardinality({i \in idx : DayScore(weather_days[i], p) >= 90 * Unit})
             storm_days == Cardinality({i \in idx : weather_days[i].storm_risk})
             rainy_days == Cardinality({i \in idx : weather_days[i].precipitation_chance > 50})
             temps == {weather_days[i].temp_high : i \in idx}
         IN  [score |-> total_score \div n,
              summary |-> [text |-> "ideal days",
                           perfect_days |-> perfect_days,
                           total_days |-> n,
                           storm_days |-> storm_days,
                           note |-> IF storm_days > 0 THEN "storm day(s)"
                                    ELSE IF 2 * rainy_days > n THEN "frequent rain expected"
                                    ELSE "generally favorable conditions",
                           temp_lo |-> CHOOSE t \in temps : \A u \in temps : t <= u,
                           temp_hi |-> CHOOSE t \in temps : \A u \in temps : t >= u]]

(***************************************************************************)
(* core/models.py: FlightOption.is_within_budget                           *)
(***************************************************************************)
\* the mutant of is_within_budget: a price equal to the hard budget is too expensive
is_within_budget_below_hard(flight, soft, hard) ==
    IF flight.price <= soft THEN <<TRUE, "great">>
    ELSE IF flight.price < hard THEN <<TRUE, "acceptable">>
    ELSE <<FALSE, "too_expensive">>

is_within_budget(flight, soft, hard) ==
    IF flight.price <= soft THEN <<TRUE, "great">>
    ELSE IF flight.price <= hard THEN <<TRUE, "acceptable">>
    ELSE <<FALSE, "too_expensive">>

(***************************************************************************)
(* core/scoring.py: score_flight_option                                    *)
(***************************************************************************)
Weekdays == {"Monday", "Tuesday", "Wednesday", "Thursday"}

\* the mutant of DurationScore: a long flight is not marked down
DurationScoreNoLongHaul(flight) ==
    (IF flight.stops = 0 THEN 100 ELSE IF flight.stops = 1 THEN 75 ELSE 50) * Unit

\* duration_score ("Duration/convenience scoring"), in model units
DurationScore(flight) ==
    LET stops_score == IF flight.stops = 0 THEN 100 ELSE IF flight.stops = 1 THEN 75 ELSE 50
    IN  IF flight.duration_hours > 12
        THEN (stops_score * Unit * 8) \div 10
        ELSE stops_score * Unit

\* the mutant of PriceScore: the two tiers within budget are exchanged
PriceScoreTiersExchanged(tier) ==
    IF tier = "great" THEN 70 ELSE IF tier = "acceptable" THEN 100 ELSE 0

\* price_score ("Price scoring"), by the tier of is_within_budget
PriceScore(tier) == IF tier = "great" THEN 100 ELSE IF tier = "acceptable" THEN 70 ELSE 0

\* returns [score, factors], the factors being the tags of the explanation; the
\* record also holds the locals affordable, tier, price_score, duration_score and
\* schedule_score as they are when the function returns
score_flight_option(flight, p) ==
    LET budget == is_within_budget(flight, p.flight_budget_soft, p.flight_budget_hard)
        tier == budget[2]
        price_score == PriceScore(tier)
        price_tag == IF tier = "great" THEN "excellent price"
                     ELSE IF tier = "acceptable" THEN "acceptable price" ELSE "over budget"
        stops_tag == IF flight.stops = 0 THEN "nonstop"
                     ELSE IF flight.stops = 1 THEN "1 stop" ELSE "N stops"
        duration_score == DurationScore(flight)
        red_eye == flight.is_red_eye_outbound \/ flight.is_red_eye_return
        red_score == IF ~p.can_take_red_eye /\ red_eye THEN 0 ELSE 100 * Unit
        red_tag == IF ~red_eye THEN <<>>
                   ELSE IF ~p.can_take_red_eye THEN <<"red-eye (disliked)">> ELSE <<"red-eye">>
        weekday == flight.departure_day_of_week \in Weekdays
        schedule_score == IF p.prefers_weekday_departure /\ ~weekday
                          THEN (red_score * 9) \div 10
                          ELSE red_score
        day_tag == IF ~p.prefers_weekday_departure THEN <<>>
                   ELSE IF weekday THEN <<"weekday departure">> ELSE <<"weekend departure">>
    IN  [score |-> (price_score * Unit * 4) \div 10
                   + (duration_score * 3) \div 10
                   + (schedule_score * 3) \div 10,
         factors |-> <<price_tag, stops_tag>> \o red_tag \o day_tag,
         affordable |-> budget[1],
         tier |-> tier,
         price_score |-> price_score,
         duration_score |-> duration_score,
         schedule_score |-> schedule_score]

(***************************************************************************)
(* core/models.py: HotelOption.matches_budget, has_loyalty_match           *)
(***************************************************************************)
matches_budget(hotel, min_rate, max_rate) ==
    min_rate <= hotel.nightly_rate /\ hotel.nightly_rate <= max_rate

has_loyalty_match(hotel, program) == hotel.loyalty_program = Some(program)

(***************************************************************************)
(* core/scoring.py: score_hotel_option                                     *)
(***************************************************************************)
\* The double nearest to 0.7 lies below 0.7, and the product m * 0.7 of an integer m
\* with it is rounded to a double: when 0.7 * m is an integer k, the rounded product
\* is k, or the double just below k when m lies in the upper part of its binade.
TimesPoint7RoundsDown(m) ==
    m % 10 = 0 /\ \E e \in 0..20 : 5 * 2^e < 2 * m /\ 7 * m < 20 * 2^e

\* nightly_rate <= hotel_budget_max * 0.7, both integers, the product a double
AtMost70Percent(rate, m) ==
    IF TimesPoint7RoundsDown(m) THEN 10 * rate < 7 * m ELSE 10 * rate <= 7 * m

\* nightly_rate <= hotel_budget_max * 0.85 (the rounded product never falls below
\* an integer value of 0.85 * m)
AtMost85Percent(rate, m) == 100 * rate <= 85 * m

\* the mutant of LocationScore: no floor at 0
LocationScoreUnfloored(hotel) == 100 - (hotel.distance_to_beach * 2)

\* max(0, 100 - distance * 20); distance_to_beach is in tenths of a mile
LocationScore(hotel) == Max(0, 100 - (hotel.distance_to_beach * 2))

\* returns [score, factors]; star_rating and guest_rating are in tenths
score_hotel_option(hotel, p) ==
    LET budget_score == IF AtMost70Percent(hotel.nightly_rate, p.hotel_budget_max) THEN 100
                        ELSE IF AtMost85Percent(hotel.nightly_rate, p.hotel_budget_max) THEN 85
                        ELSE IF hotel.nightly_rate <= p.hotel_budget_max THEN 70
                        ELSE 0
        budget_tag == IF budget_score = 100 THEN "great value"
                      ELSE IF budget_score = 85 THEN "good rate"
                      ELSE IF budget_score = 70 THEN "at budget max" ELSE "over budget"
        \* (star / 5.0) * 50 + (guest / 5.0) * 50
        quality_score == hotel.star_rating + hotel.guest_rating
        rating_tag == IF hotel.star_rating >= 40 /\ hotel.guest_rating >= 45
                      THEN <<"highly rated">>
                      ELSE IF hotel.star_rating >= 35 /\ hotel.guest_rating >= 40
                      THEN <<"well rated">>
                      ELSE IF hotel.star_rating < 30 \/ hotel.guest_rating < 35
                      THEN <<"lower ratings">> ELSE <<>>
        loyal == has_loyalty_match(hotel, p.hotel_loyalty)
        loyalty_score == IF loyal THEN 100 ELSE 50
        location_score == LocationScore(hotel)
        beach_tag == IF hotel.distance_to_beach <= 5 THEN <<"beachfront">>
                     ELSE IF hotel.distance_to_beach <= 15 THEN <<"near beach">> ELSE <<>>
        composite == (budget_score * Unit * 40) \div 100
                     + (quality_score * Unit * 35) \div 100
                     + (loyalty_score * Unit * 15) \div 100
                     + (location_score * Unit * 10) \div 100
    IN  [score |-> IF hotel.is_storm_discount THEN (composite * 7) \div 10 ELSE composite,
         factors |-> <<budget_tag>> \o rating_tag
                     \o (IF loyal THEN <<"member">> ELSE <<>>)
                     \o beach_tag
                     \o (IF hotel.is_storm_discount THEN <<"storm-period pricing">> ELSE <<>>)]

(***************************************************************************)
(* list.sort(key = score, reverse = True) on (score, item) pairs           *)
(***************************************************************************)
\* the mutant of InsertDesc: an item goes before the items of equal score
InsertDescBeforeEqual(sorted, x) ==
    LET k == Cardinality({i \in 1..Len(sorted) : sorted[i][1] > x[1]})
    IN  SubSeq(sorted, 1, k) \o <<x>> \o SubSeq(sorted, k + 1, Len(sorted))

\* place x into a list sorted by descending score, after the items whose score is
\* greater or equal: the sort is stable
InsertDesc(sorted, x) ==
    LET k == Cardinality({i \in 1..Len(sorted) : sorted[i][1] >= x[1]})
    IN  SubSeq(sorted, 1, k) \o <<x>> \o SubSeq(sorted, k + 1, Len(sorted))

RECURSIVE SortFrom(_, _, _)
SortFrom(scored, i, sorted) ==
    IF i > Len(scored) THEN sorted
    ELSE SortFrom(scored, i + 1, InsertDesc(sorted, scored[i]))

SortByScoreDesc(scored) == SortFrom(scored, 1, <<>>)

(***************************************************************************)
(* core/models.py: HotelSearchResult.filter_by_profile                     *)
(***************************************************************************)
\* the mutant of HotelPassesFilter: no safety check
HotelPassesFilterNoSafety(hotel, p) ==
    /\ matches_budget(hotel, p.hotel_budget_min, p.hotel_budget_max)
    /\ ~(p.comfort_priority >= 4 /\ hotel.guest_rating < 40)

\* the three checks of the loop body; a hotel failing one is skipped
HotelPassesFilter(hotel, p) ==
    /\ matches_budget(hotel, p.hotel_budget_min, p.hotel_budget_max)
    /\ ~(p.safety_priority >= 4 /\ hotel.star_rating < 35)
    /\ ~(p.comfort_priority >= 4 /\ hotel.guest_rating < 40)

filter_by_profile(options, p) ==
    LET Keep(h) == HotelPassesFilter(h, p) IN SelectSeq(options, Keep)

(***************************************************************************)
(* core/synthesis.py: create_travel_windows                                *)
(***************************************************************************)
\* weather days of the window
WindowDays(days, start_date, end_date) ==
    LET In(day) == start_date <= day.date /\ day.date <= end_date
    IN  SelectSeq(days, In)

\* flights departing on the start date or, when there is none, within the
\* flexibility window around it
MatchingFlights(options, start_date, p) ==
    LET OnDate(f) == f.departure_date = start_date
        Near(f) == Abs(f.departure_date - start_date) <= p.flexibility_days
        exact == SelectSeq(options, OnDate)
    IN  IF exact = <<>> THEN SelectSeq(options, Near) ELSE exact

\* the mutant of InBudgetFlights: no budget filter
InBudgetFlightsUnfiltered(matching_flights, p) == matching_flights

\* "Only consider flights within the user's hard budget"
InBudgetFlights(matching_flights, p) ==
    LET Ok(f) == f.price <= p.flight_budget_hard
    IN  SelectSeq(matching_flights, Ok)

\* (flight_score, best_flight): the head of the scored list sorted by score
BestFlight(options, start_date, p) ==
    LET in_budget_flights == InBudgetFlights(MatchingFlights(options, start_date, p), p)
        scored == SortByScoreDesc([i \in 1..Len(in_budget_flights) |->
                      <<score_flight_option(in_budget_flights[i], p).score,
                        in_budget_flights[i]>>])
    IN  IF in_budget_flights = <<>> THEN <<0, None>>
        ELSE <<scored[1][1], Some(scored[1][2])>>

\* (hotel_score, best_hotel)
BestHotel(options, p) ==
    LET matching_hotels == filter_by_profile(options, p)
        scored == SortByScoreDesc([i \in 1..Len(matching_hotels) |->
                      <<score_hotel_option(matching_hotels[i], p).score,
                        matching_hotels[i]>>])
    IN  IF matching_hotels = <<>> THEN <<0, None>>
        ELSE <<scored[1][1], Some(scored[1][2])>>

\* the mutant of MakeWindow: a stay longer than the trip length finds no hotel
MakeWindowHotelByStay(cand, days, flight_options, hotel_options, p) ==
    LET weather_days == WindowDays(days, cand[1], cand[2])
        w == score_weather_compatibility(weather_days, p)
        f == BestFlight(flight_options, cand[1], p)
        h == IF cand[2] - cand[1] > get_trip_duration_days(p.trip_length)
             THEN <<0, None>> ELSE BestHotel(hotel_options, p)
    IN  [start_date |-> cand[1],
         end_date |-> cand[2],
         weather_score |-> w.score,
         flight_score |-> f[1],
         hotel_score |-> h[1],
         overall_score |-> 0,
         flight_option |-> f[2],
         hotel_option |-> h[2],
         weather_summary |-> w.summary]

\* the TravelWindow built for one candidate
MakeWindow(cand, days, flight_options, hotel_options, p) ==
    LET weather_days == WindowDays(days, cand[1], cand[2])
        w == score_weather_compatibility(weather_days, p)
        f == BestFlight(flight_options, cand[1], p)
        h == BestHotel(hotel_options, p)
    IN  [start_date |-> cand[1],
         end_date |-> cand[2],
         weather_score |-> w.score,
         flight_score |-> f[1],
         hotel_score |-> h[1],
         overall_score |-> 0,
         flight_option |-> f[2],
         hotel_option |-> h[2],
         weather_summary |-> w.summary]

\* the mutant of NewWindowList: one list is shared by all calls
NewWindowListShared(earlier) == IF earlier = None THEN <<>> ELSE earlier[1].windows

\* "windows = []": the list a call appends to, whatever an earlier call built
NewWindowList(earlier) == <<>>

\* the mutant of WindowsFrom: a candidate without a flight in budget is skipped
RECURSIVE WindowsFromSkipsNoFlight(_, _, _, _, _, _)
WindowsFromSkipsNoFlight(cands, k, days, flight_options, hotel_options, p) ==
    IF k > Len(cands) THEN <<>>
    ELSE (IF \/ WindowDays(days, cands[k][1], cands[k][2]) = <<>>
             \/ BestFlight(flight_options, cands[k][1], p)[2] = None
          THEN <<>>
          ELSE <<MakeWindow(cands[k], days, flight_options, hotel_options, p)>>)
         \o WindowsFromSkipsNoFlight(cands, k + 1, days, flight_options, hotel_options, p)

\* the mutant of WindowsFrom: the first window built uses up the hotel options
RECURSIVE WindowsFromHotelsUsedUp(_, _, _, _, _, _)
WindowsFromHotelsUsedUp(cands, k, days, flight_options, hotel_options, p) ==
    IF k > Len(cands) THEN <<>>
    ELSE (IF WindowDays(days, cands[k][1], cands[k][2]) = <<>>
          THEN <<>>
          ELSE <<MakeWindow(cands[k], days, flight_options,
                            IF k = 1 THEN hotel_options ELSE <<>>, p)>>)
         \o WindowsFromHotelsUsedUp(cands, k + 1, days, flight_options, hotel_options, p)

\* the loop over the candidates, from candidate k on
RECURSIVE WindowsFrom(_, _, _, _, _, _)
WindowsFrom(cands, k, days, flight_options, hotel_options, p) ==
    IF k > Len(cands) THEN <<>>
    ELSE (IF WindowDays(days, cands[k][1], cands[k][2]) = <<>>
          THEN <<>>
          ELSE <<MakeWindow(cands[k], days, flight_options, hotel_options, p)>>)
         \o WindowsFrom(cands, k + 1, days, flight_options, hotel_options, p)

create_travel_windows(cands, days, flight_options, hotel_options, p) ==
    WindowsFrom(cands, 1, days, flight_options, hotel_options, p)

(***************************************************************************)
(* core/scoring.py: rank_travel_windows                                    *)
(***************************************************************************)
\* "Weights: weather 40%, flight 35%, hotel 25%", in hundredths
WeatherWeight == 40
FlightWeight == 35
HotelWeight == 25

\* the mutant of OverallScore: the hotel score is left out
OverallScoreNoHotel(w) == w.weather_score * WeatherWeight + w.flight_score * FlightWeight

\* window.overall_score, in hundredths of a model unit
OverallScore(w) ==
    w.weather_score * WeatherWeight + w.flight_score * FlightWeight
    + w.hotel_score * HotelWeight

\* the windows after the loop that sets overall_score
WithOverall(ws) == [i \in 1..Len(ws) |-> [ws[i] EXCEPT !.overall_score = OverallScore(ws[i])]]

\* sorted(windows, key = overall_score, reverse = True) of the scored windows
rank_travel_windows(ws) ==
    LET sorted == SortByScoreDesc([i \in 1..Len(ws) |-> <<ws[i].overall_score, ws[i]>>])
    IN  [i \in 1..Len(sorted) |-> sorted[i][2]]

(***************************************************************************)
(* core/synthesis.py: synthesize_recommendation, the selection             *)
(***************************************************************************)
\* the mutant of Alternatives: the slice starts at the recommended window
AlternativesFromTop(ranked) == SubSeq(ranked, 1, Min(3, Len(ranked)))

\* ranked_windows[1:4]
Alternatives(ranked) == SubSeq(ranked, 2, Min(4, Len(ranked)))

\* the mutant of NoWindows: a single window is not enough
NoWindowsOrOne(ranked) == Len(ranked) <= 1

\* "if not ranked_windows"
NoWindows(ranked) == ranked = <<>>

(***************************************************************************)
(* core/synthesis.py: _generate_reasoning, _generate_why_not_explanation.  *)
(* A text is the sequence of its clauses (joined by ". " in the code); a   *)
(* clause is its fixed wording and the values formatted into it.           *)
(***************************************************************************)
Clause(wording, values) == [clause |-> wording, values |-> values]

\* the mutant of WeatherReason: a score on a threshold takes the clause below it
WeatherReasonAboveThreshold(window, p) ==
    IF window.weather_score > 85 * Unit
    THEN <<Clause("Weather is excellent during this period",
                  <<window.weather_summary, p.preferred_temp_min, p.preferred_temp_max>>)>>
    ELSE IF window.weather_score > 70 * Unit
    THEN <<Clause("Weather is favorable", <<window.weather_summary>>)>>
    ELSE <<Clause("Weather is acceptable, though some compromise on conditions",
                  <<window.weather_summary>>)>>

\* "Weather reasoning"
WeatherReason(window, p) ==
    IF window.weather_score >= 85 * Unit
    THEN <<Clause("Weather is excellent during this period",
                  <<window.weather_summary, p.preferred_temp_min, p.preferred_temp_max>>)>>
    ELSE IF window.weather_score >= 70 * Unit
    THEN <<Clause("Weather is favorable", <<window.weather_summary>>)>>
    ELSE <<Clause("Weather is acceptable, though some compromise on conditions",
                  <<window.weather_summary>>)>>

\* "Flight reasoning"
FlightReason(window, p) ==
    IF window.flight_option # None
    THEN LET flight == window.flight_option[1]
             tier == is_within_budget(flight, p.flight_budget_soft, p.flight_budget_hard)[2]
         IN  (IF tier = "great"
              THEN <<Clause("Flight pricing is excellent, well within your target budget",
                            <<flight.price, p.flight_budget_soft>>)>>
              ELSE IF tier = "acceptable"
              THEN <<Clause("Flight fits your maximum budget",
                            <<flight.price, p.flight_budget_hard>>)>>
              ELSE <<>>)
             \o (IF flight.stops = 0
                 THEN <<Clause("with convenient nonstop service", <<>>)>> ELSE <<>>)
    ELSE <<Clause("No flights within your budget for this window",
                  <<p.flight_budget_hard>>)>>

\* "Hotel reasoning"
HotelReason(window, p) ==
    IF window.hotel_option # None
    THEN LET hotel == window.hotel_option[1]
         IN  IF has_loyalty_match(hotel, p.hotel_loyalty)
             THEN <<Clause("Lodging earns points and is within your nightly budget",
                           <<hotel.name, p.hotel_loyalty, p.hotel_budget_min,
                             p.hotel_budget_max>>)>>
             ELSE <<Clause("Lodging provides comfort within budget",
                           <<hotel.name, hotel.nightly_rate, hotel.star_rating>>)>>
    ELSE <<>>

_generate_reasoning(window, p) ==
    WeatherReason(window, p) \o FlightReason(window, p) \o HotelReason(window, p)

\* the mutant of RejectedWindows: the top windows are counted too
RejectedWindowsFromTop(all_windows) == all_windows

\* all_windows[4:]
RejectedWindows(all_windows) == SubSeq(all_windows, 5, Len(all_windows))

_generate_why_not_explanation(all_windows, periods, p) ==
    LET rejected == RejectedWindows(all_windows)
        poor_weather == Cardinality({i \in 1..Len(rejected) :
                                        rejected[i].weather_score < 50 * Unit})
        too_expensive == Cardinality({i \in 1..Len(rejected) :
                                         rejected[i].flight_score < 60 * Unit})
        explanations ==
            (IF periods # <<>>
             THEN <<Clause("Storm periods were avoided due to safety and weather concerns",
                           periods)>>
             ELSE <<>>)
            \o (IF poor_weather > 3
                THEN <<Clause("Several periods had suboptimal weather",
                              <<p.preferred_temp_min, p.preferred_temp_max>>)>>
                ELSE <<>>)
            \o (IF too_expensive > 3
                THEN <<Clause("Many departure dates had flights exceeding your maximum budget",
                              <<p.flight_budget_hard>>)>>
                ELSE <<>>)
    IN  IF explanations = <<>>
        THEN <<Clause("Other periods were viable but scored lower", <<>>)>>
        ELSE explanations

(***************************************************************************)
(* core/models.py: TravelWindow.duration_days and                          *)
(* TravelRecommendation.format_recommendation.  The text is the record of  *)
(* its sections; a section is a clause or the values printed in it.        *)
(***************************************************************************)
duration_days(window) == window.end_date - window.start_date

\* "{overall_score:.1f}": the score in tenths of a point, to the nearest tenth; a
\* score halfway between two tenths goes to the even one, as it does in the
\* program when the double holds it exactly (x.25, x.75)
OneDecimal(overall) ==
    LET tenth == 10 * Unit
        q == overall \div tenth
        r == overall % tenth
    IN  IF 2 * r > tenth \/ (2 * r = tenth /\ q % 2 = 1) THEN q + 1 ELSE q

\* the FLIGHT section
FlightLine(rec) ==
    IF rec.flight_option # None
    THEN Clause("flight", <<rec.flight_option[1].airline, rec.flight_option[1].price,
                            rec.flight_option[1].stops>>)
    ELSE Clause("No flights within your budget for this window", <<>>)

\* the LODGING section: name, nightly rate and stars, or their placeholders
LodgingLines(rec) ==
    IF rec.hotel_option # None
    THEN Clause("lodging", <<rec.hotel_option[1].name, rec.hotel_option[1].nightly_rate,
                             rec.hotel_option[1].star_rating>>)
    ELSE Clause("TBD", <<"TBD", "TBD", "N/A">>)

\* weather_summary[:100] cuts nothing: no summary text is 100 characters long
format_recommendation(r) ==
    LET rec == r.recommended_window
        shown == SubSeq(r.alternatives, 1, Min(2, Len(r.alternatives)))
    IN  [window |-> <<rec.start_date, rec.end_date, duration_days(rec)>>,
         overall |-> OneDecimal(rec.overall_score),
         weather |-> rec.weather_summary,
         flight |-> FlightLine(rec),
         lodging |-> LodgingLines(rec),
         why |-> r.reasoning,
         alternatives |-> [i \in 1..Len(shown) |->
                              [window |-> <<shown[i].start_date, shown[i].end_date>>,
                               overall |-> OneDecimal(shown[i].overall_score),
                               weather |-> shown[i].weather_summary]],
         why_not |-> r.why_not_rejected]

(***************************************************************************)
(* Inputs.  The profile is UserProfile.example() with some fields varied;  *)
(* the forecast, flight and hotel options are drawn from small catalogues. *)
(***************************************************************************)
ExampleProfile ==
    [preferred_temp_min |-> 72, preferred_temp_max |-> 85, rain_tolerance |-> "medium",
     flight_budget_soft |-> 500, flight_budget_hard |-> 750,
     hotel_budget_min |-> 150, hotel_budget_max |-> 300,
     trip_length |-> "MEDIUM", flexibility_days |-> 3,
     hotel_loyalty |-> "MARRIOTT", safety_priority |-> 4, comfort_priority |-> 4,
     can_take_red_eye |-> FALSE, prefers_weekday_departure |-> TRUE]

RainTolerances == {"low", "medium", "high"}

Sunny == [temp_high |-> 80, precipitation_chance |-> 10, storm_risk |-> FALSE]
Drizzle == [temp_high |-> 80, precipitation_chance |-> 25, storm_risk |-> FALSE]
Rainy == [temp_high |-> 80, precipitation_chance |-> 45, storm_risk |-> FALSE]
Hot == [temp_high |-> 90, precipitation_chance |-> 10, storm_risk |-> FALSE]
Stormy == [temp_high |-> 78, precipitation_chance |-> 85, storm_risk |-> TRUE]

\* a contiguous forecast: the day at position i has date FirstDate + i - 1
MakeForecast(kinds) ==
    [i \in 1..Len(kinds) |->
        [date |-> FirstDate + i - 1, temp_high |-> kinds[i].temp_high,
         precipitation_chance |-> kinds[i].precipitation_chance,
         storm_risk |-> kinds[i].storm_risk]]

Flight(day, price, airline, stops, hours, red_out, red_ret, dow) ==
    [departure_date |-> FirstDate + day, price |-> price, airline |-> airline,
     stops |-> stops, duration_hours |-> hours, is_red_eye_outbound |-> red_out,
     is_red_eye_return |-> red_ret, departure_day_of_week |-> dow]

FlightCatalogue ==
    { Flight(0, 450, "A", 0, 5, FALSE, FALSE, "Monday"),
      Flight(0, 460, "G", 0, 5, FALSE, FALSE, "Monday"),
      Flight(0, 700, "B", 0, 5, FALSE, FALSE, "Monday"),
      Flight(0, 900, "C", 0, 5, FALSE, FALSE, "Monday"),
      Flight(1, 480, "D", 1, 9, FALSE, FALSE, "Tuesday"),
      Flight(2, 450, "E", 0, 5, TRUE, FALSE, "Wednesday"),
      Flight(3, 450, "F", 0, 13, FALSE, FALSE, "Saturday"),
      Flight(5, 750, "H", 2, 14, FALSE, FALSE, "Friday") }

DefaultFlights ==
    << Flight(0, 700, "B", 0, 5, FALSE, FALSE, "Monday"),
       Flight(3, 450, "F", 0, 13, FALSE, FALSE, "Saturday") >>

Hotel(name, rate, loyalty, stars, guest, beach, storm) ==
    [name |-> name, nightly_rate |-> rate, loyalty_program |-> loyalty,
     star_rating |-> stars, guest_rating |-> guest, distance_to_beach |-> beach,
     is_storm_discount |-> storm]

HotelCatalogue ==
    { Hotel("H1", 210, Some("MARRIOTT"), 45, 46, 3, FALSE),
      Hotel("H2", 245, Some("HILTON"), 40, 42, 10, FALSE),
      Hotel("H3", 140, Some("MARRIOTT"), 30, 38, 20, FALSE),
      Hotel("H4", 320, Some("HYATT"), 50, 48, 1, FALSE),
      Hotel("H5", 200, None, 30, 45, 60, FALSE),
      Hotel("H6", 180, Some("MARRIOTT"), 40, 41, 5, TRUE) }

DefaultHotels ==
    << Hotel("H2", 245, Some("HILTON"), 40, 42, 10, FALSE),
       Hotel("H1", 210, Some("MARRIOTT"), 45, 46, 3, FALSE) >>

\* forecasts of the option sweeps: one long ideal run; an ideal run in the middle;
\* no ideal run (stride fallback); two ideal runs; too short for any window
AllSunny == MakeForecast(<<Sunny, Sunny, Sunny, Sunny, Sunny, Sunny, Sunny, Sunny>>)

TooShort == MakeForecast(<<Sunny, Hot, Sunny, Sunny>>)

OptionForecasts ==
    { AllSunny,
      MakeForecast(<<Hot, Stormy, Sunny, Sunny, Sunny, Sunny, Sunny, Rainy>>),
      MakeForecast(<<Sunny, Sunny, Hot, Sunny, Stormy, Rainy, Sunny, Sunny>>),
      MakeForecast(<<Sunny, Sunny, Sunny, Sunny, Stormy, Sunny, Sunny, Sunny, Sunny>>),
      TooShort }

\* tools/mcp_server.py, "Track storm periods": the maximal runs of storm days of
\* the forecast, from position i on
RECURSIVE TrackStormPeriods(_, _, _)
TrackStormPeriods(days, i, periods) ==
    IF i > Len(days) THEN periods
    ELSE LET day_date == days[i].date
             n == Len(periods)
         IN  IF ~days[i].storm_risk
             THEN TrackStormPeriods(days, i + 1, periods)
             ELSE IF periods = <<>> \/ periods[n][2] # day_date - 1
             THEN TrackStormPeriods(days, i + 1, Append(periods, <<day_date, day_date>>))
             ELSE TrackStormPeriods(days, i + 1,
                                    [periods EXCEPT ![n] = <<periods[n][1], day_date>>])

\* the state before the first call of synthesize_recommendation on the given
\* inputs, by a caller that repeats the call again times
StartWith(days, periods, flight_options, hotel_options, p, again) ==
    /\ weather = days
    /\ storm_periods = periods
    /\ flights = flight_options
    /\ hotels = hotel_options
    /\ profile = p
    /\ pc = "start"
    /\ ideal_periods = <<>>
    /\ candidates = <<>>
    /\ windows = <<>>
    /\ ranked_windows = <<>>
    /\ result = [kind |-> "none"]
    /\ probe = None
    /\ previous = None
    /\ calls_left = again
    /\ formatted = None

\* a single call, on a forecast whose storm periods the weather tool tracked
Start(days, flight_options, hotel_options, p) ==
    StartWith(days, TrackStormPeriods(days, 1, <<>>), flight_options, hotel_options, p, 0)

\* forecasts of every length over qualifying and non-qualifying days, without
\* and with the largest flexibility
InitScan ==
    \E kinds \in SeqsUpTo({Sunny, Hot}, MaxDays),
       flex \in {0, MaxFlex}, trip \in {"SHORT", "MEDIUM"} :
        Start(MakeForecast(kinds), DefaultFlights, DefaultHotels,
              [ExampleProfile EXCEPT !.trip_length = trip, !.flexibility_days = flex])

\* forecasts of one length over the kinds of day, for every rain tolerance: every
\* choice of the first KindDays days, then a sunny day
InitKinds ==
    \E kinds \in [1..KindDays -> {Sunny, Drizzle, Rainy, Stormy}],
       tol \in RainTolerances :
        Start(MakeForecast(kinds \o <<Sunny>>), DefaultFlights, DefaultHotels,
              [ExampleProfile EXCEPT !.trip_length = "SHORT", !.flexibility_days = 1,
                                     !.rain_tolerance = tol])

\* flight option lists
InitFlights ==
    \E days \in OptionForecasts, fs \in SeqsUpTo(FlightCatalogue, MaxFlights),
       red \in BOOLEAN, wk \in BOOLEAN :
        /\ red # wk
        /\ Start(days, fs, DefaultHotels,
                 [ExampleProfile EXCEPT !.trip_length = "SHORT", !.flexibility_days = 2,
                                        !.can_take_red_eye = red,
                                        !.prefers_weekday_departure = wk])

\* hotel option lists
InitHotels ==
    \E days \in {AllSunny, TooShort}, hs \in SeqsUpTo(HotelCatalogue, MaxHotels),
       safety \in {3, 4}, comfort \in {3, 4}, hmax \in {300, 350} :
        Start(days, DefaultFlights, hs,
              [ExampleProfile EXCEPT !.trip_length = "SHORT", !.flexibility_days = 2,
                                     !.safety_priority = safety,
                                     !.comfort_priority = comfort,
                                     !.hotel_budget_max = hmax])

\* demo.py, create_mock_data: the demonstration profile
ScenarioProfile ==
    [preferred_temp_min |-> 75, preferred_temp_max |-> 85, rain_tolerance |-> "medium",
     flight_budget_soft |-> 600, flight_budget_hard |-> 850,
     hotel_budget_min |-> 180, hotel_budget_max |-> 350,
     trip_length |-> "MEDIUM", flexibility_days |-> 4,
     hotel_loyalty |-> "MARRIOTT", safety_priority |-> 4, comfort_priority |-> 4,
     can_take_red_eye |-> FALSE, prefers_weekday_departure |-> TRUE]

\* demo.py: a forecast of 30 days, i = 0..29, the days i = 18..21 a storm period
ScenarioDays == 30
StormFirst == 18
StormLast == 21

\* the "Nice weather" day of the demonstration forecast
Nice == [temp_high |-> 81, precipitation_chance |-> 15, storm_risk |-> FALSE]

\* the demonstration forecast, its days outside the storm period all nice
ScenarioForecast ==
    MakeForecast([n \in 1..ScenarioDays |->
                     IF StormFirst <= n - 1 /\ n - 1 <= StormLast THEN Stormy ELSE Nice])

\* flights of the scenario sweep: one departing the day before the storm period,
\* one early in the forecast, one over budget on the first day after the storm
ScenarioFlights ==
    { Flight(StormFirst - 1, 450, "S", 0, 5, FALSE, FALSE, "Monday"),
      Flight(3, 620, "T", 0, 5, FALSE, FALSE, "Tuesday"),
      Flight(StormLast + 1, 900, "U", 0, 5, FALSE, FALSE, "Wednesday") }

\* the storm scenario, for every list of scenario flights
InitScenario ==
    \E fs \in SeqsUpTo(ScenarioFlights, MaxFlights), hs \in {<<>>, DefaultHotels} :
        Start(ScenarioForecast, fs, hs, ScenarioProfile)

\* a caller that repeats the call with the same inputs
InitRepeat ==
    \/ \E days \in OptionForecasts, fs \in SeqsUpTo(FlightCatalogue, 1),
          hs \in {<<>>, DefaultHotels} :
           StartWith(days, TrackStormPeriods(days, 1, <<>>), fs, hs,
                     [ExampleProfile EXCEPT !.trip_length = "SHORT", !.flexibility_days = 2],
                     MaxCalls - 1)
    \/ \E fs \in SeqsUpTo(ScenarioFlights, 1) :
           StartWith(ScenarioForecast, TrackStormPeriods(ScenarioForecast, 1, <<>>),
                     fs, DefaultHotels, ScenarioProfile, MaxCalls - 1)

\* a forecast with missing days: the dates after position k are gap days later
WithGap(days, k, gap) ==
    [i \in 1..Len(days) |-> IF i > k THEN [days[i] EXCEPT !.date = @ + gap] ELSE days[i]]

\* profiles whose budgets are the wrong way round
InvertedFlightBudget ==
    [ExampleProfile EXCEPT !.trip_length = "SHORT", !.flexibility_days = 2,
                           !.flight_budget_soft = 800, !.flight_budget_hard = 750]

InvertedHotelBudget ==
    [ExampleProfile EXCEPT !.trip_length = "SHORT", !.flexibility_days = 2,
                           !.hotel_budget_min = 400, !.hotel_budget_max = 300]

\* calls with a malformed profile, with an empty forecast, with a forecast that
\* has missing days
InitInvalid ==
    \/ \E days \in {AllSunny, TooShort, <<>>},
          fs \in SeqsUpTo(FlightCatalogue
                          \cup {Flight(0, 780, "I", 0, 5, FALSE, FALSE, "Monday")}, 1),
          p \in {InvertedFlightBudget, InvertedHotelBudget} :
           Start(days, fs, DefaultHotels, p)
    \/ \E days \in OptionForecasts, k \in 1..(MaxDays - 2), gap \in {1, 6},
          fs \in {<<>>, DefaultFlights} :
           /\ k < Len(days)
           /\ Start(WithGap(days, k, gap), fs, DefaultHotels,
                    [ExampleProfile EXCEPT !.trip_length = "SHORT", !.flexibility_days = 2])

\* a day too hot to score 50
Scorching == [temp_high |-> 97, precipitation_chance |-> 10, storm_risk |-> FALSE]

\* a forecast without an ideal run: hot days, then bad days from position turn + 1 on
HotThen(bad, turn, length) == MakeForecast([n \in 1..length |-> IF n <= turn THEN Hot ELSE bad])

\* flights of the rejection sweep: with a flexibility of 4 days each is within
\* reach of three start dates of the stride; the last is a red-eye at a price
\* over the soft budget
RejectionFlights ==
    << Flight(3, 450, "J", 0, 5, FALSE, FALSE, "Monday"),
       Flight(12, 450, "K", 0, 5, FALSE, FALSE, "Tuesday"),
       Flight(21, 450, "L", 0, 5, FALSE, FALSE, "Wednesday"),
       Flight(21, 700, "M", 0, 5, TRUE, FALSE, "Thursday") >>

\* the sub-sequence of s at the positions in keep
Pick(s, keep) ==
    LET Kept(x) == \E i \in keep : s[i] = x
    IN  SelectSeq(s, Kept)

\* calls that rank seven to nine windows, some of them of poor weather
InitRejections ==
    \E bad \in {Stormy, Scorching}, turn \in {0, 14, 17, 20, 23, 28, ScenarioDays},
       length \in {ScenarioDays - 6, ScenarioDays - 3, ScenarioDays},
       keep \in SUBSET (1..Len(RejectionFlights)) :
        /\ Cardinality(keep) # 2
        /\ Start(HotThen(bad, turn, length), Pick(RejectionFlights, keep), DefaultHotels,
                 [ExampleProfile EXCEPT !.trip_length = "SHORT", !.flexibility_days = 4])

\* a forecast of two ideal runs of four days, one day between them
TwoRuns(between) ==
    MakeForecast(<<Sunny, Sunny, Sunny, Sunny, between, Sunny, Sunny, Sunny, Sunny>>)

\* a flight over the hard budget
OverBudget(day) == Flight(day, 900, "X", 0, 5, FALSE, FALSE, "Monday")

\* flight lists of the overlap sweep: none; one flight late in the forecast; one
\* flight within budget on the third day and flights over budget on the days
\* around it
OverlapFlights ==
    { <<>>,
      <<Flight(6, 450, "N", 0, 5, FALSE, FALSE, "Monday")>>,
      <<OverBudget(0), OverBudget(1), OverBudget(3), OverBudget(4), OverBudget(5),
        Flight(2, 450, "O", 0, 5, FALSE, FALSE, "Tuesday")>> }

\* calls whose flexibility lets the variants of two ideal periods meet
InitOverlap ==
    \E between \in {Hot, Rainy, Stormy},
       flex \in {ExampleProfile.flexibility_days, ExampleProfile.flexibility_days + 1},
       fs \in OverlapFlights, hs \in {<<>>, DefaultHotels} :
        Start(TwoRuns(between), fs, hs,
              [ExampleProfile EXCEPT !.trip_length = "SHORT", !.flexibility_days = flex])

\* a direct call of one scorer on one option
ProbeStart(which, days, flight_options, hotel_options, p) ==
    /\ weather = days
    /\ storm_periods = <<>>
    /\ flights = flight_options
    /\ hotels = hotel_options
    /\ profile = p
    /\ pc = which
    /\ ideal_periods = <<>>
    /\ candidates = <<>>
    /\ windows = <<>>
    /\ ranked_windows = <<>>
    /\ result = [kind |-> "none"]
    /\ probe = None
    /\ previous = None
    /\ calls_left = 0
    /\ formatted = None

InitProbeWeather ==
    \E t \in {40, 52, 71, 72, 85, 86, 105, 130},
       r \in {0, 19, 20, 39, 40, 59, 60, 100},
       st \in BOOLEAN, tol \in RainTolerances :
        ProbeStart("score_weather",
                   MakeForecast(<<[temp_high |-> t, precipitation_chance |-> r,
                                   storm_risk |-> st]>>),
                   <<>>, <<>>, [ExampleProfile EXCEPT !.rain_tolerance = tol])

InitProbeFlight ==
    \E price \in {0, 500, 501, 750, 751, 5000}, stops \in {0, 1, 2, 5},
       hours \in {5, 12, 13}, ro \in BOOLEAN, rr \in BOOLEAN,
       dow \in {"Monday", "Friday", "Sunday"}, red \in BOOLEAN, wk \in BOOLEAN :
        ProbeStart("score_flight", <<>>,
                   <<Flight(0, price, "P", stops, hours, ro, rr, dow)>>, <<>>,
                   [ExampleProfile EXCEPT !.can_take_red_eye = red,
                                          !.prefers_weekday_departure = wk])

\* flights priced around the soft and the hard budget, for several budgets
InitProbeBudget ==
    \E soft \in {100, 500, 749}, gap \in {1, 250}, at \in {0, 1}, off \in {0 - 1, 0, 1} :
        LET hard == soft + gap
            price == (IF at = 0 THEN soft ELSE hard) + off
        IN  ProbeStart("score_flight", <<>>,
                       <<Flight(0, price, "P", 1, 9, FALSE, FALSE, "Tuesday")>>, <<>>,
                       [ExampleProfile EXCEPT !.flight_budget_soft = soft,
                                              !.flight_budget_hard = hard])

InitProbeHotel ==
    \E rate \in {0, 209, 210, 244, 245, 255, 256, 297, 298, 300, 301, 350, 351},
       stars \in {0, 35, 50}, guest \in {0, 40, 50},
       loyalty \in {Some("MARRIOTT"), Some("HILTON"), None},
       beach \in {0, 15, 50, 80}, storm \in BOOLEAN, hmax \in {300, 350} :
        ProbeStart("score_hotel", <<>>, <<>>,
                   <<Hotel("P", rate, loyalty, stars, guest, beach, storm)>>,
                   [ExampleProfile EXCEPT !.hotel_budget_max = hmax])

\* two flights that differ in price only, for a soft budget below, at and above
\* the hard budget
InitProbePrices ==
    \E soft \in {500, 750, 800},
       low \in {0, 499, 500, 501, 749, 750, 751, 900},
       high \in {0, 499, 500, 501, 749, 750, 751, 900},
       stops \in {0, 1}, hours \in {5, 13}, dow \in {"Monday", "Friday"} :
        ProbeStart("score_flights", <<>>,
                   <<Flight(0, low, "P", stops, hours, FALSE, FALSE, dow),
                     Flight(0, high, "P", stops, hours, FALSE, FALSE, dow)>>, <<>>,
                   [ExampleProfile EXCEPT !.flight_budget_soft = soft])

Init ==
    \/ InitScan
    \/ InitKinds
    \/ InitFlights
    \/ InitHotels
    \/ InitScenario
    \/ InitRepeat
    \/ InitInvalid
    \/ InitRejections
    \/ InitOverlap
    \/ InitProbeWeather
    \/ InitProbeFlight
    \/ InitProbeBudget
    \/ InitProbeHotel
    \/ InitProbePrices

(***************************************************************************)
(* The steps of synthesize_recommendation.                                 *)
(***************************************************************************)
\* candidates = generate_candidate_windows(weather, profile); ideal_periods is the
\* function's local list of the same name
Generate ==
    /\ pc = "start"
    /\ ideal_periods' = get_ideal_periods(weather, profile,
                                          get_trip_duration_days(profile.trip_length))
    /\ candidates' = generate_candidate_windows(weather, profile)
    /\ pc' = "generated"
    /\ UNCHANGED <<weather, storm_periods, flights, hotels, profile, windows, ranked_windows, result, probe, previous, calls_left, formatted>>

\* windows = create_travel_windows(candidates, weather, flights, hotels, profile)
CreateWindows ==
    /\ pc = "generated"
    /\ windows' = NewWindowList(previous)
                   \o create_travel_windows(candidates, weather, flights, hotels, profile)
    /\ pc' = "created"
    /\ UNCHANGED <<weather, storm_periods, flights, hotels, profile, ideal_periods, candidates, ranked_windows, result, probe, previous, calls_left, formatted>>

\* ranked_windows = rank_travel_windows(windows): sets overall_score of every
\* window in place and returns the sorted list
Rank ==
    /\ pc = "created"
    /\ windows' = WithOverall(windows)
    /\ ranked_windows' = rank_travel_windows(WithOverall(windows))
    /\ pc' = "ranked"
    /\ UNCHANGED <<weather, storm_periods, flights, hotels, profile, ideal_periods, candidates, result, probe, previous, calls_left, formatted>>

\* raise ValueError("No viable travel windows found")
RaiseNoViableWindows ==
    /\ pc = "ranked"
    /\ NoWindows(ranked_windows)
    /\ result' = [kind |-> "error", error |-> "No viable travel windows found"]
    /\ pc' = "raised"
    /\ UNCHANGED <<weather, storm_periods, flights, hotels, profile, ideal_periods, candidates, windows, ranked_windows, probe, previous, calls_left, formatted>>

\* return TravelRecommendation(recommended_window, alternatives, ...)
ReturnRecommendation ==
    /\ pc = "ranked"
    /\ ~NoWindows(ranked_windows)
    /\ result' = [kind |-> "recommendation",
                  recommended_window |-> ranked_windows[1],
                  alternatives |-> Alternatives(ranked_windows),
                  reasoning |-> _generate_reasoning(ranked_windows[1], profile),
                  why_not_rejected |-> _generate_why_not_explanation(ranked_windows,
                                                                     storm_periods, profile),
                  profile_used |-> profile]
    /\ pc' = "returned"
    /\ UNCHANGED <<weather, storm_periods, flights, hotels, profile, ideal_periods, candidates, windows, ranked_windows, probe, previous, calls_left, formatted>>

\* the caller prints the recommendation: recommendation.format_recommendation()
Format ==
    /\ pc = "returned"
    /\ formatted = None
    /\ formatted' = Some(format_recommendation(result))
    /\ UNCHANGED <<weather, storm_periods, flights, hotels, profile, pc, ideal_periods, candidates, windows, ranked_windows, result, probe, previous, calls_left>>

\* the caller calls synthesize_recommendation again with the same arguments: the
\* outcome of the finished call stays with the caller, the new call starts with
\* fresh locals
CallAgain ==
    /\ pc \in {"raised", "returned"}
    /\ calls_left > 0
    /\ previous' = Some([windows |-> windows, ranked_windows |-> ranked_windows,
                         result |-> result])
    /\ calls_left' = calls_left - 1
    /\ pc' = "start"
    /\ ideal_periods' = <<>>
    /\ candidates' = <<>>
    /\ windows' = <<>>
    /\ ranked_windows' = <<>>
    /\ result' = [kind |-> "none"]
    /\ formatted' = None
    /\ UNCHANGED <<weather, storm_periods, flights, hotels, profile, probe>>

(***************************************************************************)
(* Direct calls of the scorers.                                            *)
(***************************************************************************)
ScoreWeather ==
    /\ pc = "score_weather"
    /\ probe' = Some(score_weather_compatibility(weather, profile))
    /\ pc' = "scored"
    /\ UNCHANGED <<weather, storm_periods, flights, hotels, profile, ideal_periods, candidates, windows, ranked_windows, result, previous, calls_left, formatted>>

ScoreFlight ==
    /\ pc = "score_flight"
    /\ probe' = Some(score_flight_option(flights[1], profile))
    /\ pc' = "scored"
    /\ UNCHANGED <<weather, storm_periods, flights, hotels, profile, ideal_periods, candidates, windows, ranked_windows, result, previous, calls_left, formatted>>

\* [score_flight_option(f, profile) for f in flights]: every flight of a list
ScoreFlights ==
    /\ pc = "score_flights"
    /\ probe' = Some([i \in 1..Len(flights) |-> score_flight_option(flights[i], profile)])
    /\ pc' = "scored_flights"
    /\ UNCHANGED <<weather, storm_periods, flights, hotels, profile, ideal_periods, candidates, windows, ranked_windows, result, previous, calls_left, formatted>>

ScoreHotel ==
    /\ pc = "score_hotel"
    /\ probe' = Some(score_hotel_option(hotels[1], profile))
    /\ pc' = "scored"
    /\ UNCHANGED <<weather, storm_periods, flights, hotels, profile, ideal_periods, candidates, windows, ranked_windows, result, previous, calls_left, formatted>>

Next ==
    \/ Generate
    \/ CreateWindows
    \/ Rank
    \/ RaiseNoViableWindows
    \/ ReturnRecommendation
    \/ Format
    \/ CallAgain
    \/ ScoreWeather
    \/ ScoreFlight
    \/ ScoreFlights
    \/ ScoreHotel

Spec == Init /\ [][Next]_vars

(***************************************************************************)
(* Properties.                                                             *)
(***************************************************************************)
\* rank_travel_windows has run
Ranked == pc \in {"ranked", "raised", "returned"}

\* create_travel_windows has run
Created == pc \in {"created", "ranked", "raised", "returned"}

\* generate_candidate_windows has run
Generated == pc \in {"generated", "created", "ranked", "raised", "returned"}

TripDays == get_trip_duration_days(profile.trip_length)

\* C1: after rank_travel_windows, the overall score of every window (of the list
\* scored in place and of the ranked list) is 0.40 * weather_score
\* + 0.35 * flight_score + 0.25 * hotel_score of that window and nothing else, and
\* the three weights add up to 1 (100 hundredths).
C1_OverallIsWeightedSum ==
    /\ WeatherWeight + FlightWeight + HotelWeight = 100
    /\ Ranked =>
          /\ \A i \in 1..Len(windows) :
                windows[i].overall_score =
                    40 * windows[i].weather_score + 35 * windows[i].flight_score
                    + 25 * windows[i].hotel_score
          /\ \A i \in 1..Len(ranked_windows) :
                ranked_windows[i].overall_score =
                    40 * ranked_windows[i].weather_score
                    + 35 * ranked_windows[i].flight_score
                    + 25 * ranked_windows[i].hotel_score

\* C1 witness: ranked windows with three different non-zero sub-scores
C1_Witness ==
    /\ pc = "ranked"
    /\ Len(ranked_windows) >= 2
    /\ \E i \in 1..Len(ranked_windows) :
          LET w == ranked_windows[i]
          IN  /\ w.weather_score > 0 /\ w.flight_score > 0 /\ w.hotel_score > 0
              /\ w.weather_score # w.flight_score
              /\ w.flight_score # w.hotel_score
              /\ w.weather_score # w.hotel_score

\* number of positions of s holding x
Count(s, x) == Cardinality({i \in 1..Len(s) : s[i] = x})

\* the sub-list of the windows whose overall score is v
WithScore(s, v) == LET Is(w) == w.overall_score = v IN SelectSeq(s, Is)

\* C2: the ranked list is a permutation of the scored windows, in non-increasing
\* order of overall score, and windows of equal overall score keep the relative
\* order they have in the input list.
C2_RankIsStableSortedPermutation ==
    Ranked =>
        /\ Len(ranked_windows) = Len(windows)
        /\ \A i \in 1..Len(windows) :
              Count(ranked_windows, windows[i]) = Count(windows, windows[i])
        /\ \A i, j \in 1..Len(ranked_windows) :
              i < j => ranked_windows[i].overall_score >= ranked_windows[j].overall_score
        /\ \A i \in 1..Len(windows) :
              WithScore(ranked_windows, windows[i].overall_score)
                  = WithScore(windows, windows[i].overall_score)

\* C2 witness: the sort moved a window up, and two different windows tie
C2_Witness ==
    /\ pc = "ranked"
    /\ ranked_windows # windows
    /\ \E i, j \in 1..Len(windows) :
          /\ i < j
          /\ windows[i] # windows[j]
          /\ windows[i].overall_score = windows[j].overall_score
    /\ \E i, j \in 1..Len(windows) :
          i < j /\ windows[i].overall_score < windows[j].overall_score

\* C3: synthesize_recommendation ends in the "No viable travel windows found" error
\* exactly when no window was produced, the error carries no recommendation, and
\* with at least one window it returns a recommendation.
C3_ErrorIffNoWindows ==
    /\ pc = "raised" =>
          /\ Len(windows) = 0
          /\ result.kind = "error"
          /\ result.error = "No viable travel windows found"
          /\ "recommended_window" \notin DOMAIN result
    /\ pc = "returned" =>
          /\ Len(windows) > 0
          /\ result.kind = "recommendation"
    /\ pc \in {"start", "generated", "created", "ranked"} => result.kind = "none"

\* C3 witness: the error raised for a forecast that has days
C3_Witness == pc = "raised" /\ Len(weather) >= TripDays

\* C4: the recommended window is the first of the ranked list, so no ranked window
\* has a higher overall score, and the alternatives are the ranked windows 2..4 in
\* rank order: min(3, n - 1) of them.
C4_TopAndAlternatives ==
    pc = "returned" =>
        LET n == Len(ranked_windows) IN
        /\ result.recommended_window = ranked_windows[1]
        /\ \A i \in 1..n :
              result.recommended_window.overall_score >= ranked_windows[i].overall_score
        /\ Len(result.alternatives) = Min(3, n - 1)
        /\ \A k \in 1..Len(result.alternatives) :
              result.alternatives[k] = ranked_windows[k + 1]

\* C4 witness: more than four ranked windows, three alternatives, scores differ
C4_Witness ==
    /\ pc = "returned"
    /\ Len(ranked_windows) > 4
    /\ Len(result.alternatives) = 3
    /\ ranked_windows[1].overall_score > ranked_windows[5].overall_score

\* the ranges of the data model
DayInRange(day) == day.precipitation_chance \in 0..100

HotelInRange(h) ==
    h.star_rating \in 0..50 /\ h.guest_rating \in 0..50 /\ h.distance_to_beach >= 0

InputsInRange ==
    /\ \A i \in 1..Len(weather) : DayInRange(weather[i])
    /\ \A i \in 1..Len(hotels) : HotelInRange(hotels[i])

ScoreInRange(x) == 0 <= x /\ x <= 100 * Unit

\* C5: for inputs within the ranges of the data model, every score returned by a
\* scorer, and every weather, flight, hotel and overall score of a window, lies
\* in [0, 100].
C5_ScoresWithinBounds ==
    InputsInRange =>
        /\ pc = "scored" => ScoreInRange(probe[1].score)
        /\ \A i \in 1..Len(windows) :
              /\ ScoreInRange(windows[i].weather_score)
              /\ ScoreInRange(windows[i].flight_score)
              /\ ScoreInRange(windows[i].hotel_score)
              /\ 0 <= windows[i].overall_score
              /\ windows[i].overall_score <= 100 * Unit * 100
        /\ \A i \in 1..Len(ranked_windows) :
              /\ 0 <= ranked_windows[i].overall_score
              /\ ranked_windows[i].overall_score <= 100 * Unit * 100

\* C5 witness: a scored day more than 20 degrees outside the range (score 0)
C5_Witness ==
    /\ pc = "scored"
    /\ Len(weather) = 1
    /\ weather[1].temp_high > profile.preferred_temp_max + 20
    /\ InputsInRange
    /\ probe[1].score = 0

\* the qualifying day of the run detection, as the design states it: the high
\* temperature within the preferred range, the precipitation chance below the
\* threshold of the rain tolerance, no storm risk
Qualifies(day) ==
    /\ day.temp_high >= profile.preferred_temp_min
    /\ day.temp_high <= profile.preferred_temp_max
    /\ (profile.rain_tolerance = "low" => day.precipitation_chance < 20)
    /\ (profile.rain_tolerance = "medium" => day.precipitation_chance < 40)
    /\ ~day.storm_risk

\* the maximal runs of qualifying days, as pairs of forecast positions
MaximalRuns ==
    {r \in (1..Len(weather)) \X (1..Len(weather)) :
        /\ r[1] <= r[2]
        /\ \A i \in r[1]..r[2] : Qualifies(weather[i])
        /\ (r[1] = 1 \/ ~Qualifies(weather[r[1] - 1]))
        /\ (r[2] = Len(weather) \/ ~Qualifies(weather[r[2] + 1]))}

LongRuns == {r \in MaximalRuns : r[2] - r[1] + 1 >= TripDays}

\* C6: get_ideal_periods returns exactly the maximal runs of qualifying days of
\* length >= min_days, in forecast order, each as (date of its first day, date of
\* its last qualifying day), a run open on the last forecast day included.
C6_IdealPeriodsAreLongMaximalRuns ==
    Generated =>
        /\ Len(ideal_periods) = Cardinality(LongRuns)
        /\ \A k \in 1..Len(ideal_periods) :
              \E r \in LongRuns :
                  ideal_periods[k] = <<weather[r[1]].date, weather[r[2]].date>>
        /\ \A k \in 1..(Len(ideal_periods) - 1) :
              ideal_periods[k][2] < ideal_periods[k + 1][1]

\* C6 witness: a run of exactly min_days gave the one period, of that length, and
\* the forecast also holds a run one day short, and the period's run ended on a
\* non-qualifying day
C6_Witness ==
    /\ pc = "generated"
    /\ Len(ideal_periods) = 1
    /\ ideal_periods[1][2] - ideal_periods[1][1] + 1 = TripDays
    /\ ideal_periods[1][2] < weather[Len(weather)].date
    /\ \E r \in MaximalRuns : r[2] - r[1] + 1 = TripDays - 1

\* the 0-based start positions i = 0, 3, 6, ... whose window of TripDays days fits
\* inside the forecast
FittingStarts == {i \in 0..Len(weather) : i % 3 = 0 /\ i + TripDays <= Len(weather)}

\* C7 (as claimed): the stride fallback is taken exactly when no run reaches the
\* trip length, and it then emits one window for every start position 0, 3, 6, ...
\* whose window fits inside the forecast, so it yields a candidate whenever the
\* forecast has at least TripDays days.
C7_FallbackCoversHorizon ==
    /\ Generated => (ideal_periods = <<>> <=> LongRuns = {})
    /\ (Generated /\ LongRuns = {}) =>
        /\ Len(candidates) = Cardinality(FittingStarts)
        /\ \A i \in FittingStarts :
              \E k \in 1..Len(candidates) :
                  candidates[k] = <<weather[i + 1].date, weather[i + TripDays].date>>
        /\ (Len(weather) >= TripDays => candidates # <<>>)

\* the fallback as the code runs it: the start positions i = 0, 3, 6, ... with
\* i + TripDays < Len(weather), the last fitting position left out
C7_FallbackStopsOneShort ==
    (Generated /\ LongRuns = {}) =>
        LET starts == {i \in 0..Len(weather) : i % 3 = 0 /\ i + TripDays < Len(weather)}
        IN  /\ Len(candidates) = Cardinality(starts)
            /\ \A i \in starts :
                  \E k \in 1..Len(candidates) :
                      candidates[k] = <<weather[i + 1].date, weather[i + TripDays].date>>

\* C8: every candidate lies inside the forecast:
\* first forecast date <= start <= end <= last forecast date.
C8_CandidatesWithinForecast ==
    Generated =>
        \A k \in 1..Len(candidates) :
            /\ weather # <<>>
            /\ weather[1].date <= candidates[k][1]
            /\ candidates[k][1] <= candidates[k][2]
            /\ candidates[k][2] <= weather[Len(weather)].date

\* the candidates that are not an ideal period themselves: its shifted variants
IsShiftedVariant(c) ==
    ideal_periods # <<>> /\ \A k \in 1..Len(ideal_periods) : ideal_periods[k] # c

\* C8 witness: an earlier-start variant was emitted, a later-start variant ends on
\* the last forecast day, and a later-start variant was dropped at the bound
C8_Witness ==
    /\ pc = "generated"
    /\ Len(ideal_periods) = 1
    /\ profile.flexibility_days >= 2
    /\ \E k \in 1..Len(candidates) : candidates[k][1] < ideal_periods[1][1]
    /\ \E k \in 1..Len(candidates) :
          /\ candidates[k][1] > ideal_periods[1][1]
          /\ candidates[k][2] = weather[Len(weather)].date
    /\ ideal_periods[1][1] + profile.flexibility_days + TripDays
          > weather[Len(weather)].date

\* C9 (as claimed): every shifted variant covers exactly TripDays forecast days,
\* both end points counted, like every window of the stride fallback.
C9_VariantsHaveTripLength ==
    Generated =>
        \A k \in 1..Len(candidates) :
            IsShiftedVariant(candidates[k]) =>
                candidates[k][2] - candidates[k][1] + 1 = TripDays

\* the lengths as the code produces them: a fallback window covers TripDays days,
\* a shifted variant TripDays + 1
C9_VariantsAreOneDayLonger ==
    Generated =>
        \A k \in 1..Len(candidates) :
            /\ ideal_periods = <<>> =>
                  candidates[k][2] - candidates[k][1] + 1 = TripDays
            /\ IsShiftedVariant(candidates[k]) =>
                  candidates[k][2] - candidates[k][1] + 1 = TripDays + 1

\* positions of the flight options eligible for a window starting on start_date:
\* those departing that day or, when there is none of any price, those departing
\* within flexibility_days of it
EligibleFlights(start_date) ==
    LET exact == {i \in 1..Len(flights) : flights[i].departure_date = start_date}
        near == {i \in 1..Len(flights) :
                    /\ flights[i].departure_date - start_date <= profile.flexibility_days
                    /\ start_date - flights[i].departure_date <= profile.flexibility_days}
    IN  IF exact # {} THEN exact ELSE near

InBudgetEligible(start_date) ==
    {i \in EligibleFlights(start_date) : flights[i].price <= profile.flight_budget_hard}

\* C10: the flight selected for a window costs at most flight_budget_hard; it is
\* drawn from the flights departing on the start date when there is one of any
\* price, and from those within flexibility_days otherwise; it is the in-budget
\* eligible flight of highest score_flight_option, the first in input order among
\* equal top scores; no flight is selected only when none is eligible in budget.
C10_BestFlightSelection ==
    Created =>
        \A k \in 1..Len(windows) :
            LET w == windows[k]
                pool == InBudgetEligible(w.start_date)
            IN  IF pool = {}
                THEN w.flight_option = None /\ w.flight_score = 0
                ELSE /\ w.flight_option # None
                     /\ w.flight_option[1].price <= profile.flight_budget_hard
                     /\ \E i \in pool :
                           /\ w.flight_option[1] = flights[i]
                           /\ w.flight_score = score_flight_option(flights[i], profile).score
                           /\ \A j \in pool :
                                 LET sj == score_flight_option(flights[j], profile).score
                                 IN  /\ sj <= w.flight_score
                                     /\ (sj = w.flight_score /\ flights[j] # flights[i])
                                           => i < j

\* C10 witness: a window has no flight because the flight departing on its start
\* date is over budget, although an in-budget flight departs within the
\* flexibility window; another window of the same call has a flight selected
C10_Witness ==
    /\ pc = "created"
    /\ \E k \in 1..Len(windows) :
          /\ windows[k].flight_option = None
          /\ \E i \in 1..Len(flights) :
                /\ flights[i].departure_date = windows[k].start_date
                /\ flights[i].price > profile.flight_budget_hard
          /\ \E j \in 1..Len(flights) :
                /\ flights[j].price <= profile.flight_budget_hard
                /\ Abs(flights[j].departure_date - windows[k].start_date)
                      <= profile.flexibility_days
    /\ \E k \in 1..Len(windows) : windows[k].flight_option # None

\* the hard filters of the hotel selection, as the design states them
SatisfiesHardFilters(h) ==
    /\ profile.hotel_budget_min <= h.nightly_rate
    /\ h.nightly_rate <= profile.hotel_budget_max
    /\ (profile.safety_priority >= 4 => h.star_rating >= 35)
    /\ (profile.comfort_priority >= 4 => h.guest_rating >= 40)

PassingHotels == {i \in 1..Len(hotels) : SatisfiesHardFilters(hotels[i])}

\* C11: the hotel selected for a window satisfies the hard filters (nightly rate
\* within [hotel_budget_min, hotel_budget_max], star rating >= 3.5 when
\* safety_priority >= 4, guest rating >= 4.0 when comfort_priority >= 4) and no
\* hotel satisfying them has a higher score_hotel_option; a hotel is selected
\* whenever at least one hotel satisfies the filters, and none otherwise.
C11_BestHotelAmongFiltered ==
    Created =>
        \A k \in 1..Len(windows) :
            LET w == windows[k]
            IN  IF PassingHotels = {}
                THEN w.hotel_option = None
                ELSE /\ w.hotel_option # None
                     /\ SatisfiesHardFilters(w.hotel_option[1])
                     /\ \E i \in PassingHotels :
                           /\ w.hotel_option[1] = hotels[i]
                           /\ w.hotel_score = score_hotel_option(hotels[i], profile).score
                     /\ \A j \in PassingHotels :
                           score_hotel_option(hotels[j], profile).score <= w.hotel_score

\* C11 witness: the selected hotel is the second of the list, and the first one
\* scores higher but fails a hard filter
C11_Witness ==
    /\ pc = "created"
    /\ windows # <<>>
    /\ Len(hotels) = 2
    /\ windows[1].hotel_option = Some(hotels[2])
    /\ ~SatisfiesHardFilters(hotels[1])
    /\ score_hotel_option(hotels[1], profile).score > windows[1].hotel_score

\* the candidates that have at least one forecast day
CandidatesWithDays ==
    {k \in 1..Len(candidates) :
        \E i \in 1..Len(weather) :
            candidates[k][1] <= weather[i].date /\ weather[i].date <= candidates[k][2]}

\* C12: every candidate with weather days gives a window, whether or not a flight
\* or a hotel qualifies, and every window is ranked; in every window the flight
\* option is unset iff the flight score is 0 and the hotel option is unset iff
\* the hotel score is 0.
C12_UnsetOptionIffZeroScore ==
    /\ Created =>
          /\ Len(windows) = Cardinality(CandidatesWithDays)
          /\ \A k \in 1..Len(windows) :
                /\ windows[k].flight_option = None <=> windows[k].flight_score = 0
                /\ windows[k].hotel_option = None <=> windows[k].hotel_score = 0
    /\ Ranked =>
          /\ Len(ranked_windows) = Cardinality(CandidatesWithDays)
          /\ \A k \in 1..Len(ranked_windows) :
                /\ ranked_windows[k].flight_option = None
                      <=> ranked_windows[k].flight_score = 0
                /\ ranked_windows[k].hotel_option = None
                      <=> ranked_windows[k].hotel_score = 0

\* C12 witness: a ranked window without a flight and without a hotel (both scores
\* 0), ranked next to a window of the same call that has a flight
C12_Witness ==
    /\ pc = "ranked"
    /\ \E k \in 1..Len(ranked_windows) :
          /\ ranked_windows[k].flight_option = None
          /\ ranked_windows[k].flight_score = 0
          /\ ranked_windows[k].hotel_option = None
          /\ ranked_windows[k].hotel_score = 0
          /\ ranked_windows[k].weather_score > 0
    /\ \E k \in 1..Len(ranked_windows) : ranked_windows[k].flight_option # None

\* score_flight_option has returned
FlightScored == pc = "scored" /\ flights # <<>>

\* the price component 0.4 * price_score of the returned locals, in model units
PriceComponent(r) == (r.price_score * Unit * 4) \div 10

\* C13: with flight_budget_soft < flight_budget_hard, a price <= soft is
\* (affordable, "great") with price component 40; soft < price <= hard, the hard
\* budget itself included, is (affordable, "acceptable") with price component 28;
\* a price > hard, hard + 1 included, is (not affordable, "too_expensive") with
\* price component 0.
C13_BudgetTiers ==
    (FlightScored /\ profile.flight_budget_soft < profile.flight_budget_hard) =>
        LET f == flights[1]
            r == probe[1]
            soft == profile.flight_budget_soft
            hard == profile.flight_budget_hard
            budget == is_within_budget(f, soft, hard)
        IN  /\ budget = <<r.affordable, r.tier>>
            /\ f.price <= soft =>
                  budget = <<TRUE, "great">> /\ PriceComponent(r) = 40 * Unit
            /\ (soft < f.price /\ f.price <= hard) =>
                  budget = <<TRUE, "acceptable">> /\ PriceComponent(r) = 28 * Unit
            /\ f.price > hard =>
                  budget = <<FALSE, "too_expensive">> /\ PriceComponent(r) = 0

\* C13 witness: a flight priced exactly at a hard budget one above the soft budget
C13_Witness ==
    /\ FlightScored
    /\ profile.flight_budget_hard = profile.flight_budget_soft + 1
    /\ flights[1].price = profile.flight_budget_hard
    /\ probe[1].tier = "acceptable"

\* the convenience score of the design: 100 / 75 / 50 by stops, times 0.8 above
\* 12 hours, in tenths of a model unit
Convenience10(f) ==
    (IF f.stops = 0 THEN 100 ELSE IF f.stops = 1 THEN 75 ELSE 50)
    * (IF f.duration_hours > 12 THEN 8 ELSE 10) * Unit

\* the price score of the design: 100 / 70 / 0 by budget tier
PriceTier(f) ==
    IF f.price <= profile.flight_budget_soft THEN 100
    ELSE IF f.price <= profile.flight_budget_hard THEN 70 ELSE 0

\* C14: score_flight_option returns 0.4 * price + 0.3 * convenience
\* + 0.3 * schedule, convenience being 100 / 75 / 50 for 0 / 1 / 2 or more stops,
\* times 0.8 when the duration exceeds 12 hours; schedule is 0 when the profile
\* does not accept red-eyes and a leg is a red-eye, whatever the weekday; the
\* rationale holds the stop-count tag.
C14_FlightScoreFormula ==
    FlightScored =>
        LET f == flights[1]
            r == probe[1]
            rejected_red_eye == /\ ~profile.can_take_red_eye
                                /\ (f.is_red_eye_outbound \/ f.is_red_eye_return)
            tag == IF f.stops = 0 THEN "nonstop"
                   ELSE IF f.stops = 1 THEN "1 stop" ELSE "N stops"
        IN  /\ 10 * r.duration_score = Convenience10(f)
            /\ r.schedule_score \in {0, 90 * Unit, 100 * Unit}
            /\ rejected_red_eye => r.schedule_score = 0
            /\ 100 * r.score
                  = 40 * PriceTier(f) * Unit + 3 * Convenience10(f) + 30 * r.schedule_score
            /\ \E i \in 1..Len(r.factors) : r.factors[i] = tag

\* C14 witness: a rejected red-eye with more than one stop and more than 12 hours,
\* departing on a Sunday for a profile that prefers weekdays
C14_Witness ==
    /\ FlightScored
    /\ flights[1].stops >= 2
    /\ flights[1].duration_hours > 12
    /\ flights[1].is_red_eye_return /\ ~profile.can_take_red_eye
    /\ flights[1].departure_day_of_week = "Sunday" /\ profile.prefers_weekday_departure
    /\ probe[1].schedule_score = 0
    /\ probe[1].score = PriceComponent(probe[1]) + 12 * Unit

\* C15 (as claimed): for a flight without red-eye legs and a profile preferring
\* weekday departure, the schedule factor is 90 exactly when the flight departs on
\* Saturday or Sunday, and 100 for a departure on Monday to Friday.
C15_WeekendPenaltyOnlyOnWeekend ==
    (/\ FlightScored
     /\ ~flights[1].is_red_eye_outbound /\ ~flights[1].is_red_eye_return
     /\ profile.prefers_weekday_departure) =>
        LET dow == flights[1].departure_day_of_week
        IN  /\ probe[1].schedule_score = 90 * Unit <=> dow \in {"Saturday", "Sunday"}
            /\ dow \in {"Monday", "Tuesday", "Wednesday", "Thursday", "Friday"}
                  => probe[1].schedule_score = 100 * Unit

\* the schedule factor as the code computes it: 100 for a departure on Monday to
\* Thursday and 90 on every other day, Friday included
C15_FridayIsMarkedDown ==
    (/\ FlightScored
     /\ ~flights[1].is_red_eye_outbound /\ ~flights[1].is_red_eye_return
     /\ profile.prefers_weekday_departure) =>
        LET dow == flights[1].departure_day_of_week
        IN  probe[1].schedule_score =
                IF dow \in {"Monday", "Tuesday", "Wednesday", "Thursday"}
                THEN 100 * Unit ELSE 90 * Unit

\* score_hotel_option has returned
HotelScored == pc = "scored" /\ hotels # <<>>

\* the composite of the design in hundredths of a point: 40 * budget + 35 * quality
\* + 15 * loyalty + 10 * location, the budget tier taken at exactly 70%, 85% and
\* 100% of hotel_budget_max
Composite100(h) ==
    LET m == profile.hotel_budget_max
        budget == IF 10 * h.nightly_rate <= 7 * m THEN 100
                  ELSE IF 100 * h.nightly_rate <= 85 * m THEN 85
                  ELSE IF h.nightly_rate <= m THEN 70 ELSE 0
        quality == h.star_rating + h.guest_rating
        loyalty == IF h.loyalty_program = Some(profile.hotel_loyalty) THEN 100 ELSE 50
        location == Max(0, 100 - 2 * h.distance_to_beach)
    IN  40 * budget + 35 * quality + 15 * loyalty + 10 * location

\* the score of the design, times 10: the composite, times 0.7 for a storm discount
ClaimedHotelScore10(h) ==
    Composite100(h) * (Unit \div 100) * (IF h.is_storm_discount THEN 7 ELSE 10)

\* C16 (as claimed): score_hotel_option returns 0.40 * budget + 0.35 * quality
\* + 0.15 * loyalty + 0.10 * location, times 0.7 for a storm-discounted hotel, the
\* budget being 100 / 85 / 70 / 0 for a rate <= 70% / <= 85% / <= 100% / above 100%
\* of hotel_budget_max; a storm-discounted hotel with composite 100 scores 70 and
\* none scores above 70.
C16_HotelScoreFormula ==
    (HotelScored /\ HotelInRange(hotels[1])) =>
        /\ 10 * probe[1].score = ClaimedHotelScore10(hotels[1])
        /\ hotels[1].is_storm_discount => probe[1].score <= 70 * Unit
        /\ (hotels[1].is_storm_discount /\ Composite100(hotels[1]) = 10000)
              => probe[1].score = 70 * Unit

\* the same formula away from the 70% boundary: it holds for every rate that is
\* not exactly 70% of hotel_budget_max
C16_FormulaOffTheBoundary ==
    (HotelScored /\ HotelInRange(hotels[1])
     /\ 10 * hotels[1].nightly_rate # 7 * profile.hotel_budget_max) =>
        /\ 10 * probe[1].score = ClaimedHotelScore10(hotels[1])
        /\ hotels[1].is_storm_discount => probe[1].score <= 70 * Unit
        /\ (hotels[1].is_storm_discount /\ Composite100(hotels[1]) = 10000)
              => probe[1].score = 70 * Unit

\* score_weather_compatibility has returned (called directly)
WeatherScored == pc = "scored" /\ weather # <<>>

\* the day score of the design, in model units: max(0, 100 - 5 d), d the degrees
\* outside the preferred range, times the rain multiplier, times 0.1 for a storm
ClaimedDayScore(day) ==
    LET d == IF day.temp_high < profile.preferred_temp_min
             THEN profile.preferred_temp_min - day.temp_high
             ELSE IF day.temp_high > profile.preferred_temp_max
             THEN day.temp_high - profile.preferred_temp_max
             ELSE 0
        temp == IF 100 - 5 * d > 0 THEN 100 - 5 * d ELSE 0
        rain10 == CASE profile.rain_tolerance = "low" ->
                           IF day.precipitation_chance >= 40 THEN 3
                           ELSE IF day.precipitation_chance >= 20 THEN 6 ELSE 10
                    [] profile.rain_tolerance = "medium" ->
                           IF day.precipitation_chance >= 60 THEN 5
                           ELSE IF day.precipitation_chance >= 40 THEN 8 ELSE 10
                    [] OTHER -> 10
        storm10 == IF day.storm_risk THEN 1 ELSE 10
    IN  temp * rain10 * storm10 * (Unit \div 100)

\* forecast positions of the days of a window
DaysOf(w) == {i \in 1..Len(weather) : w.start_date <= weather[i].date
                                       /\ weather[i].date <= w.end_date}

\* sum of the design's day scores over a set of forecast positions
RECURSIVE ClaimedTotal(_)
ClaimedTotal(S) ==
    IF S = {} THEN 0
    ELSE LET i == CHOOSE j \in S : TRUE
         IN  ClaimedDayScore(weather[i]) + ClaimedTotal(S \ {i})

\* C17: the weather score of a non-empty list of days is the arithmetic mean of
\* the day scores max(0, 100 - 5 d) * rain multiplier * (0.1 if storm_risk), for
\* the days of every window and for a list scored directly.
C17_WeatherScoreIsMeanOfDayScores ==
    /\ WeatherScored =>
          Len(weather) * probe[1].score = ClaimedTotal(1..Len(weather))
    /\ Created =>
          \A k \in 1..Len(windows) :
              LET days == DaysOf(windows[k])
              IN  /\ days # {}
                  /\ Cardinality(days) * windows[k].weather_score = ClaimedTotal(days)

\* C17 witness: a window of a low-tolerance profile holding a storm day, a day
\* with 20..39% precipitation and a day with >= 40%, scored strictly between the
\* extremes
C17_Witness ==
    /\ pc = "created"
    /\ profile.rain_tolerance = "low"
    /\ \E k \in 1..Len(windows) :
          /\ \E i \in DaysOf(windows[k]) : weather[i].storm_risk
          /\ \E i \in DaysOf(windows[k]) :
                ~weather[i].storm_risk /\ weather[i].precipitation_chance \in 20..39
          /\ \E i \in DaysOf(windows[k]) :
                ~weather[i].storm_risk /\ weather[i].precipitation_chance >= 40
          /\ windows[k].weather_score > 10 * Unit
          /\ windows[k].weather_score < 90 * Unit

\* C18: a day with storm_risk set scores at most 10, below 15, whatever its
\* temperature and precipitation and whatever the profile; a one-day list holding
\* a storm day scores below 15; a storm day is never counted as an ideal day of a
\* summary.
C18_StormDominates ==
    /\ \A i \in 1..Len(weather) :
          weather[i].storm_risk => DayScore(weather[i], profile) <= 10 * Unit
    /\ (WeatherScored /\ Len(weather) = 1 /\ weather[1].storm_risk) =>
          /\ probe[1].score <= 10 * Unit
          /\ probe[1].score < 15 * Unit
          /\ probe[1].summary.perfect_days = 0
          /\ probe[1].summary.storm_days = 1
    /\ Created =>
          \A k \in 1..Len(windows) :
              LET sm == windows[k].weather_summary
                  storms == {i \in DaysOf(windows[k]) : weather[i].storm_risk}
              IN  /\ sm.storm_days = Cardinality(storms)
                  /\ sm.perfect_days <= sm.total_days - sm.storm_days

\* C18 witness: a storm day with the temperature in range and no rain, scored for
\* a profile of high rain tolerance: exactly 10
C18_Witness ==
    /\ WeatherScored
    /\ Len(weather) = 1
    /\ weather[1].storm_risk
    /\ weather[1].precipitation_chance = 0
    /\ weather[1].temp_high = profile.preferred_temp_min
    /\ profile.rain_tolerance = "high"
    /\ probe[1].score = 10 * Unit

\* the run is the storm scenario
ScenarioRun == profile = ScenarioProfile /\ weather = ScenarioForecast

\* the window holds a storm day of the forecast
OverlapsStorm(w) == \E i \in DaysOf(w) : weather[i].storm_risk

\* C19 (as claimed): in the storm scenario, for every list of flight and hotel
\* options, the weather score of the top-ranked window is strictly greater than
\* that of every ranked window overlapping the storm days, so the top-ranked
\* window overlaps no storm day.
C19_TopWindowAvoidsStorm ==
    (Ranked /\ ScenarioRun /\ ranked_windows # <<>>) =>
        \A k \in 1..Len(ranked_windows) :
            OverlapsStorm(ranked_windows[k]) =>
                ranked_windows[1].weather_score > ranked_windows[k].weather_score

\* what holds in the storm scenario: no ideal period holds a storm day, a window
\* overlapping the storm has a lower weather score than every window that does
\* not, and windows overlapping the storm are among the candidates
C19_StormWindowsScoreLowerWeather ==
    /\ (Generated /\ ScenarioRun) =>
          /\ \A k \in 1..Len(ideal_periods) :
                \A i \in 1..Len(weather) :
                    (ideal_periods[k][1] <= weather[i].date
                     /\ weather[i].date <= ideal_periods[k][2]) => ~weather[i].storm_risk
          /\ \E k \in 1..Len(candidates) :
                \E i \in 1..Len(weather) :
                    /\ candidates[k][1] <= weather[i].date
                    /\ weather[i].date <= candidates[k][2]
                    /\ weather[i].storm_risk
    /\ (Ranked /\ ScenarioRun) =>
          \A j, k \in 1..Len(ranked_windows) :
              (OverlapsStorm(ranked_windows[k]) /\ ~OverlapsStorm(ranked_windows[j])) =>
                  ranked_windows[j].weather_score > ranked_windows[k].weather_score

MalformedProfile(p) ==
    \/ p.flight_budget_soft > p.flight_budget_hard
    \/ p.hotel_budget_min > p.hotel_budget_max

Contiguous(days) == \A i \in 1..(Len(days) - 1) : days[i + 1].date = days[i].date + 1

\* the arguments of the call of synthesize_recommendation are invalid
InvalidInput == MalformedProfile(profile) \/ weather = <<>> \/ ~Contiguous(weather)

\* synthesize_recommendation has raised or returned
Finished == pc \in {"raised", "returned"}

C21_InvalidInputIsRejected ==
    (Finished /\ InvalidInput) => (pc = "raised" /\ result.kind = "error")

\* C21, as the code runs: of the invalid inputs only the empty forecast ends in
\* an error, and that is the error of a call that found no window; any other
\* invalid input that yields a window ends in a recommendation.
C21_InvalidInputIsProcessed ==
    Finished =>
        /\ weather = <<>> => result.kind = "error"
        /\ result.kind = "error" <=> windows = <<>>
        /\ (InvalidInput /\ windows # <<>>) => result.kind = "recommendation"

\* a call with a malformed profile, and one with missing days, has returned a
\* recommendation
C21_Reached ==
    /\ pc = "returned"
    /\ result.kind = "recommendation"
    /\ MalformedProfile(profile)
    /\ result.recommended_window.flight_option # None

(***************************************************************************)
(* C22: the rejection text of a returned recommendation is not empty and   *)
(* is built from the windows ranked beyond the top 4 only.  It holds the   *)
(* storm clause iff the forecast has a storm period, the poor-weather      *)
(* clause iff more than 3 windows beyond the top 4 have a weather score    *)
(* below 50, the budget clause iff more than 3 windows beyond the top 4    *)
(* have a flight score below 60, and the 'scored lower' clause iff none of *)
(* the three conditions holds.                                             *)
(***************************************************************************)
\* the rejection text holds the clause of this wording
WhyNotHas(wording) ==
    \E i \in 1..Len(result.why_not_rejected) : result.why_not_rejected[i].clause = wording

\* positions of the ranked list beyond the top 4
BeyondTop == 5..Len(ranked_windows)

PoorWeatherBeyondTop == {i \in BeyondTop : ranked_windows[i].weather_score < 50 * Unit}

LowFlightBeyondTop == {i \in BeyondTop : ranked_windows[i].flight_score < 60 * Unit}

C22_RejectionClauses ==
    pc = "returned" =>
        LET storm == storm_periods # <<>>
            poor == Cardinality(PoorWeatherBeyondTop) > 3
            budget == Cardinality(LowFlightBeyondTop) > 3
        IN  /\ result.why_not_rejected # <<>>
            /\ WhyNotHas("Storm periods were avoided due to safety and weather concerns")
                   <=> storm
            /\ WhyNotHas("Several periods had suboptimal weather") <=> poor
            /\ WhyNotHas("Many departure dates had flights exceeding your maximum budget")
                   <=> budget
            /\ WhyNotHas("Other periods were viable but scored lower")
                   <=> ~(storm \/ poor \/ budget)
            /\ \A i \in 1..Len(result.why_not_rejected) :
                   result.why_not_rejected[i].clause \in
                       {"Storm periods were avoided due to safety and weather concerns",
                        "Several periods had suboptimal weather",
                        "Many departure dates had flights exceeding your maximum budget",
                        "Other periods were viable but scored lower"}

\* four windows of poor weather beyond the top 4 and the poor-weather clause, no
\* storm period and no budget clause, a window of poor weather among the top 4
C22_Witness ==
    /\ pc = "returned"
    /\ Cardinality(PoorWeatherBeyondTop) = 4
    /\ WhyNotHas("Several periods had suboptimal weather")
    /\ ~WhyNotHas("Many departure dates had flights exceeding your maximum budget")
    /\ storm_periods = <<>>
    /\ \E i \in 1..4 : ranked_windows[i].weather_score < 50 * Unit

\* seven windows of poor weather, three of them beyond the top 4: no clause
C22_ThreeIsNotEnough ==
    /\ pc = "returned"
    /\ Len(ranked_windows) = 7
    /\ \A i \in 1..7 : ranked_windows[i].weather_score < 50 * Unit
    /\ ~WhyNotHas("Several periods had suboptimal weather")

(***************************************************************************)
(* C23: the reasoning text of the recommended window holds exactly one     *)
(* weather clause, chosen by the window's weather score: 'excellent' iff   *)
(* the score is at least 85, 'favorable' iff it is at least 70 and below   *)
(* 85, 'acceptable ... compromise' iff it is below 70.  When a flight is   *)
(* selected the text holds the 'excellent' price clause iff the flight's   *)
(* tier is 'great' and the 'fits your maximum budget' clause iff the tier  *)
(* is 'acceptable'.                                                        *)
(***************************************************************************)
\* how many clauses of the reasoning text have a wording of the set
ReasonCount(wordings) ==
    Cardinality({i \in 1..Len(result.reasoning) : result.reasoning[i].clause \in wordings})

ReasonHas(wording) == ReasonCount({wording}) > 0

WeatherWordings ==
    {"Weather is excellent during this period", "Weather is favorable",
     "Weather is acceptable, though some compromise on conditions"}

C23_ReasoningClauses ==
    pc = "returned" =>
        LET w == result.recommended_window
            score == w.weather_score
        IN  /\ ReasonCount(WeatherWordings) = 1
            /\ ReasonHas("Weather is excellent during this period") <=> score >= 85 * Unit
            /\ ReasonHas("Weather is favorable")
                   <=> (70 * Unit <= score /\ score < 85 * Unit)
            /\ ReasonHas("Weather is acceptable, though some compromise on conditions")
                   <=> score < 70 * Unit
            /\ w.flight_option # None =>
                   LET price == w.flight_option[1].price
                   IN  /\ ReasonHas("Flight pricing is excellent, well within your target budget")
                           <=> price <= profile.flight_budget_soft
                       /\ ReasonHas("Flight fits your maximum budget")
                           <=> (price > profile.flight_budget_soft
                                /\ price <= profile.flight_budget_hard)

\* a recommended window whose weather score is exactly 85, with a flight of the
\* acceptable tier
C23_Witness ==
    /\ pc = "returned"
    /\ result.recommended_window.weather_score = 85 * Unit
    /\ ReasonHas("Weather is excellent during this period")
    /\ result.recommended_window.flight_option # None
    /\ ReasonHas("Flight fits your maximum budget")

\* a recommended window whose weather score is exactly 70
C23_FavorableAtSeventy ==
    /\ pc = "returned"
    /\ result.recommended_window.weather_score = 70 * Unit
    /\ ReasonHas("Weather is favorable")

\* a recommended window of a weather score below 70 with a flight of the great tier
C23_AcceptableBelowSeventy ==
    /\ pc = "returned"
    /\ result.recommended_window.weather_score < 70 * Unit
    /\ ReasonHas("Weather is acceptable, though some compromise on conditions")
    /\ ReasonHas("Flight pricing is excellent, well within your target budget")

(***************************************************************************)
(* C24: when the recommended window has no selected flight, and likewise   *)
(* when it has no selected hotel, the recommendation says so in explicit   *)
(* 'no option within budget' text for that option, a flight clause and a   *)
(* lodging clause, rather than leaving it out; generating the reasoning    *)
(* and formatting the recommendation never fail because an option is       *)
(* absent.                                                                 *)
(***************************************************************************)
FlightWordings ==
    {"Flight pricing is excellent, well within your target budget",
     "Flight fits your maximum budget", "with convenient nonstop service",
     "No flights within your budget for this window"}

\* the reasoning text holds a clause that is neither about weather nor about flights
ReasonHasLodgingClause ==
    \E i \in 1..Len(result.reasoning) :
        result.reasoning[i].clause \notin (WeatherWordings \cup FlightWordings)

C24_AbsentOptionsAreSurfaced ==
    pc = "returned" =>
        /\ result.recommended_window.flight_option = None =>
               /\ ReasonHas("No flights within your budget for this window")
               /\ formatted # None =>
                      formatted[1].flight.clause = "No flights within your budget for this window"
        /\ result.recommended_window.hotel_option = None =>
               /\ ReasonHasLodgingClause
               /\ formatted # None => formatted[1].lodging.clause # "TBD"
        /\ formatted = None => ENABLED Format

\* C24, as the code runs: an absent flight is surfaced in the reasoning and in the
\* FLIGHT section; an absent hotel leaves the reasoning without any lodging clause
\* and the LODGING section with the placeholders TBD, TBD and N/A; the text is
\* formatted in either case.
C24_AbsentHotelIsLeftOut ==
    pc = "returned" =>
        /\ result.recommended_window.flight_option = None =>
               /\ ReasonHas("No flights within your budget for this window")
               /\ formatted # None =>
                      formatted[1].flight.clause = "No flights within your budget for this window"
        /\ result.recommended_window.hotel_option = None =>
               /\ ~ReasonHasLodgingClause
               /\ formatted # None =>
                      formatted[1].lodging = Clause("TBD", <<"TBD", "TBD", "N/A">>)
        /\ result.recommended_window.hotel_option # None => ReasonHasLodgingClause
        /\ formatted = None => ENABLED Format

\* a recommendation without flight and without hotel has been formatted
C24_Reached ==
    /\ pc = "returned"
    /\ formatted # None
    /\ result.recommended_window.flight_option = None
    /\ result.recommended_window.hotel_option = None

(***************************************************************************)
(* C25: for every profile and every two flights that are identical except  *)
(* for the price and are both priced at or below flight_budget_hard, the   *)
(* flight of the lower price gets a score_flight_option score greater than *)
(* or equal to the other's.                                                *)
(***************************************************************************)
\* score_flight_option has scored a list of two flights
FlightsScored == pc = "scored_flights" /\ Len(flights) = 2

\* the two scored flights differ in price at most
SameButPrice == [flights[1] EXCEPT !.price = 0] = [flights[2] EXCEPT !.price = 0]

C25_CheaperScoresAtLeastAsHigh ==
    (/\ FlightsScored
     /\ SameButPrice
     /\ flights[1].price <= profile.flight_budget_hard
     /\ flights[2].price <= profile.flight_budget_hard
     /\ flights[1].price <= flights[2].price)
        => probe[1][1].score >= probe[1][2].score

\* two flights within the hard budget on either side of the soft budget: the
\* cheaper one scores higher
C25_Witness ==
    /\ FlightsScored
    /\ SameButPrice
    /\ profile.flight_budget_soft < profile.flight_budget_hard
    /\ flights[1].price <= profile.flight_budget_soft
    /\ flights[2].price > profile.flight_budget_soft
    /\ flights[2].price <= profile.flight_budget_hard
    /\ probe[1][1].score > probe[1][2].score

(***************************************************************************)
(* C28: the qualifying test of get_ideal_periods and the weather scorer    *)
(* agree: for every profile and every weather day, the day qualifies for   *)
(* an ideal run iff its day score in score_weather_compatibility is        *)
(* exactly 100.  Hence every window made of qualifying days only, every    *)
(* detected ideal period among them, has a weather score of 100 (above 90) *)
(* and a summary that reports all of its days as ideal.                    *)
(***************************************************************************)
\* every forecast day of the window passes the test of get_ideal_periods
AllDaysQualify(w) == \A i \in DaysOf(w) : DayMeetsCriteria(weather[i], profile)

C28_QualifyingIffFullDayScore ==
    /\ (WeatherScored /\ Len(weather) = 1) =>
           (DayMeetsCriteria(weather[1], profile) <=> probe[1].score = 100 * Unit)
    /\ Generated =>
           /\ \A i \in 1..Len(weather) :
                  DayMeetsCriteria(weather[i], profile)
                      <=> DayScore(weather[i], profile) = 100 * Unit
           /\ \A k \in 1..Len(ideal_periods), i \in 1..Len(weather) :
                  (ideal_periods[k][1] <= weather[i].date
                   /\ weather[i].date <= ideal_periods[k][2])
                      => DayScore(weather[i], profile) = 100 * Unit
    /\ Created =>
           /\ \A k \in 1..Len(windows) :
                  AllDaysQualify(windows[k]) =>
                      /\ windows[k].weather_score = 100 * Unit
                      /\ windows[k].weather_score > 90 * Unit
                      /\ windows[k].weather_summary.perfect_days
                             = windows[k].weather_summary.total_days
           /\ \A k \in 1..Len(ideal_periods) :
                  \E j \in 1..Len(windows) :
                      /\ windows[j].start_date = ideal_periods[k][1]
                      /\ windows[j].end_date = ideal_periods[k][2]
                      /\ windows[j].weather_score = 100 * Unit

\* the windows of a call: the one of an ideal period, of score 100 with all days
\* ideal, and a variant that holds a day which does not qualify, of a lower score
C28_Witness ==
    /\ pc = "created"
    /\ ideal_periods # <<>>
    /\ \E j \in 1..Len(windows) :
           /\ windows[j].start_date = ideal_periods[1][1]
           /\ windows[j].end_date = ideal_periods[1][2]
           /\ AllDaysQualify(windows[j])
           /\ windows[j].weather_score = 100 * Unit
           /\ windows[j].weather_summary.perfect_days = windows[j].weather_summary.total_days
    /\ \E j \in 1..Len(windows) :
           /\ ~AllDaysQualify(windows[j])
           /\ windows[j].weather_score < 100 * Unit

\* a single day at the rain limit of the profile's tolerance has been scored: it
\* does not qualify and scores below 100
C28_AtTheRainLimit ==
    /\ WeatherScored
    /\ Len(weather) = 1
    /\ profile.rain_tolerance = "medium"
    /\ weather[1].precipitation_chance = 40
    /\ weather[1].temp_high = 72
    /\ ~weather[1].storm_risk
    /\ ~DayMeetsCriteria(weather[1], profile)
    /\ probe[1].score = 80 * Unit

(***************************************************************************)
(* C29: within one call of create_travel_windows the hotel selection does  *)
(* not depend on the window: every window carries the same selected hotel  *)
(* and the same hotel score, so the order of any two windows in the        *)
(* ranking is decided by their weather and flight scores alone.            *)
(***************************************************************************)
\* the part of the overall score that weather and flight contribute
WeatherAndFlight(w) == w.weather_score * WeatherWeight + w.flight_score * FlightWeight

C29_SameHotelInEveryWindow ==
    /\ Created =>
           \A i, j \in 1..Len(windows) :
               /\ windows[i].hotel_option = windows[j].hotel_option
               /\ windows[i].hotel_score = windows[j].hotel_score
    /\ Ranked =>
           \A i, j \in 1..Len(ranked_windows) :
               /\ ranked_windows[i].hotel_option = ranked_windows[j].hotel_option
               /\ ranked_windows[i].hotel_score = ranked_windows[j].hotel_score
               /\ i < j => WeatherAndFlight(ranked_windows[i])
                               >= WeatherAndFlight(ranked_windows[j])
               /\ (ranked_windows[i].overall_score > ranked_windows[j].overall_score)
                      <=> (WeatherAndFlight(ranked_windows[i])
                               > WeatherAndFlight(ranked_windows[j]))

\* ranked windows of different length that carry the same hotel and differ in
\* weather and in flight score
C29_Witness ==
    /\ pc = "ranked"
    /\ \E i, j \in 1..Len(ranked_windows) :
           /\ i < j
           /\ ranked_windows[i].hotel_option # None
           /\ ranked_windows[i].hotel_option = ranked_windows[j].hotel_option
           /\ ranked_windows[i].hotel_score > 0
           /\ duration_days(ranked_windows[i]) # duration_days(ranked_windows[j])
           /\ ranked_windows[i].weather_score # ranked_windows[j].weather_score
           /\ ranked_windows[i].flight_score # ranked_windows[j].flight_score
           /\ ranked_windows[i].overall_score > ranked_windows[j].overall_score

(***************************************************************************)
(* C30: in every recommendation returned by synthesize_recommendation the  *)
(* alternatives are different periods: no alternative has the (start_date, *)
(* end_date) of the recommended window and no two alternatives have the    *)
(* same (start_date, end_date).                                            *)
(***************************************************************************)
Period(w) == <<w.start_date, w.end_date>>

C30_AlternativesAreDistinctPeriods ==
    pc = "returned" =>
        /\ \A i \in 1..Len(result.alternatives) :
               Period(result.alternatives[i]) # Period(result.recommended_window)
        /\ \A i, j \in 1..Len(result.alternatives) :
               i # j => Period(result.alternatives[i]) # Period(result.alternatives[j])

\* C30, as the code runs: the recommended window and the alternatives are the
\* first entries of the ranked list, which has an entry for every candidate with
\* weather days; they are distinct periods when the candidates are, and the
\* candidates are not when a later variant of one ideal period is an earlier
\* variant of the next.
C30_DistinctWhenCandidatesAre ==
    pc = "returned" =>
        /\ Len(ranked_windows) = Cardinality(CandidatesWithDays)
        /\ (\A i, j \in 1..Len(candidates) : i # j => candidates[i] # candidates[j])
               => C30_AlternativesAreDistinctPeriods

\* the recommended window is listed again as the first alternative
C30_RecommendedListedAgain ==
    /\ pc = "returned"
    /\ result.alternatives # <<>>
    /\ Period(result.alternatives[1]) = Period(result.recommended_window)

(***************************************************************************)
(* C26: the scores and the selected options of a window are determined by  *)
(* its own (start, end) pair, the full option sets and the profile, and do *)
(* not depend on which other candidates exist or on when it is scored.     *)
(* Scoring the candidates in any order and then sorting stably by overall  *)
(* score, ties broken by the original candidate position, therefore gives  *)
(* the ranked list of the sequential evaluation.                           *)
(***************************************************************************)
\* the candidates that have weather days, in the order of the list
ScoredCandidates ==
    LET HasDays(c) == WindowDays(weather, c[1], c[2]) # <<>>
    IN  SelectSeq(candidates, HasDays)

\* orders in which n items can be taken, as functions from turn to position:
\* the reverse order, the order that starts with the last item and the one that
\* exchanges the first two; they are all orders of 2 items and three of the five
\* other orders of 3
Orders(n) ==
    {[i \in 1..n |-> n + 1 - i],
     [i \in 1..n |-> IF i = 1 THEN n ELSE i - 1],
     [i \in 1..n |-> IF n < 2 THEN i ELSE IF i = 1 THEN 2 ELSE IF i = 2 THEN 1 ELSE i]}

\* the items of s taken in the order f
Reordered(s, f) == [i \in 1..Len(s) |-> s[f[i]]]

\* the window create_travel_windows builds of one candidate on its own
BuiltAlone(c) == create_travel_windows(<<c>>, weather, flights, hotels, profile)

\* the windows create_travel_windows builds when it takes the scored candidates
\* in the order f
BuiltInOrder(f) ==
    create_travel_windows(Reordered(ScoredCandidates, f), weather, flights, hotels, profile)

RecommendedOf(cands) ==
    rank_travel_windows(WithOverall(create_travel_windows(cands, weather, flights,
                                                           hotels, profile)))[1]

\* start date, end date and scores of a window
DatesAndScores(w) ==
    <<w.start_date, w.end_date, w.weather_score, w.flight_score, w.hotel_score,
      w.overall_score>>

C27_CandidateOrderIsInsignificant ==
    pc = "returned" =>
        \A f \in Orders(Len(candidates)) :
            DatesAndScores(RecommendedOf(Reordered(candidates, f)))
                = DatesAndScores(result.recommended_window)

\* the windows of the highest overall score
TopScoring == {i \in 1..Len(ranked_windows) :
                  ranked_windows[i].overall_score = ranked_windows[1].overall_score}

\* C27, as the code runs: on a reordered list the recommended window has the same
\* overall score and is one of the windows of that score; it is the same window
\* when one period only has the highest score, and otherwise the window whose
\* candidate comes first in the list.
C27_OrderDecidesAmongTies ==
    pc = "returned" =>
        \A f \in Orders(Len(candidates)) :
            LET r == RecommendedOf(Reordered(candidates, f))
            IN  /\ \E i \in TopScoring : r = ranked_windows[i]
                /\ (\A i \in TopScoring : Period(ranked_windows[i]) = Period(ranked_windows[1]))
                       => DatesAndScores(r) = DatesAndScores(result.recommended_window)

\* a recommendation with a second window of the same overall score for another
\* period
C27_TieAtTheTop ==
    /\ pc = "returned"
    /\ \E i \in TopScoring : Period(ranked_windows[i]) # Period(ranked_windows[1])

====
